---- MODULE Spec2Model ----
(***************************************************************************)
(* Verification model of the battle-record decoding pipeline               *)
(* (read_battle_records.py, battle_record.py).                             *)
(*                                                                         *)
(* Texts whose characters matter (pattern-validated and numeric columns)   *)
(* are sequences of one-character strings, <<"S", "+", " ", "5", "0">>.    *)
(* Texts that the code only compares for equality or passes through        *)
(* (catalog keys, names, JSON blobs handed to the json library) are        *)
(* strings.                                                                *)
(*                                                                         *)
(* read_battle_records.py is written against a battle_record module that   *)
(* exports is_weapon_key and a BattleParticipant with a `weapon` field;    *)
(* the model follows read_battle_records.py there.                         *)
(***************************************************************************)
EXTENDS Integers, Sequences, FiniteSets, TLC

VARIABLES
    call,              \* unit harness: the function applied ("none" before)
    arg,               \* unit harness: the function to apply and its arguments
    ret,               \* unit harness: what the function returned
    participant_keys,  \* iteration order of the participant_keys set
    archive,           \* the zip archive: the sequence z.infolist()
    gen,               \* the battle_records_from_zip generators, by id
    logged             \* Err values passed to logger.error, in order

vars == <<call, arg, ret, participant_keys, archive, gen, logged>>

(***************************************************************************)
(* Text helpers.                                                           *)
(***************************************************************************)
Digits == {"0", "1", "2", "3", "4", "5", "6", "7", "8", "9"}

DigitVal(c) ==
    CASE c = "0" -> 0 [] c = "1" -> 1 [] c = "2" -> 2 [] c = "3" -> 3
      [] c = "4" -> 4 [] c = "5" -> 5 [] c = "6" -> 6 [] c = "7" -> 7
      [] c = "8" -> 8 [] c = "9" -> 9

\* All sequences over alphabet A of length 0..n.
StringsUpTo(A, n) == UNION {[1..k -> A] : k \in 0..n}

\* s with position i replaced by c.
Subst(s, i, c) == [s EXCEPT ![i] = c]

(***************************************************************************)
(* battle_record.py: pattern validators.                                   *)
(***************************************************************************)
\* [CBAS][+-]?
RankAltLetter(s) ==
    /\ Len(s) \in {1, 2}
    /\ s[1] \in {"C", "B", "A", "S"}
    /\ Len(s) = 2 => s[2] \in {"+", "-"}

\* S\+ [0-9]
RankAltOneDigit(s) ==
    /\ Len(s) = 4
    /\ s[1] = "S" /\ s[2] = "+" /\ s[3] = " "
    /\ s[4] \in Digits

\* S\+ [1-4][0-9]
RankAltTwoDigits(s) ==
    /\ Len(s) = 5
    /\ s[1] = "S" /\ s[2] = "+" /\ s[3] = " "
    /\ s[4] \in {"1", "2", "3", "4"}
    /\ s[5] \in Digits

\* S\+ 50
RankAltFifty(s) == s = <<"S", "+", " ", "5", "0">>

\* Faulty variant: the two-digit alternative written [1-5][0-9].
RankPattern_fullmatch_wide(s) ==
    \/ s = <<>>
    \/ RankAltLetter(s)
    \/ RankAltOneDigit(s)
    \/ /\ Len(s) = 5
       /\ s[1] = "S" /\ s[2] = "+" /\ s[3] = " "
       /\ s[4] \in {"1", "2", "3", "4", "5"}
       /\ s[5] \in Digits

\* RankPattern.fullmatch(s): (?:alt1|alt2|alt3|alt4)?
RankPattern_fullmatch(s) ==
    \/ s = <<>>
    \/ RankAltLetter(s)
    \/ RankAltOneDigit(s)
    \/ RankAltTwoDigits(s)
    \/ RankAltFifty(s)

is_rank_string(key) == RankPattern_fullmatch(key)

HexLower == Digits \cup {"a", "b", "c", "d", "e", "f"}

\* Faulty variant: the pattern searched with match() instead of fullmatch().
ColorPattern_fullmatch_prefix(s) ==
    /\ Len(s) >= 8
    /\ \A i \in 1..8 : s[i] \in HexLower

\* ColorPattern.fullmatch(s): [0-9a-f]{8}
ColorPattern_fullmatch(s) ==
    /\ Len(s) = 8
    /\ \A i \in 1..8 : s[i] \in HexLower

is_color_string(key) == ColorPattern_fullmatch(key)

(***************************************************************************)
(* Python built-ins used by the decoder, on texts made of ASCII digits,    *)
(* signs, ".", "_", spaces and letters other than an exponent marker.      *)
(***************************************************************************)
None == <<>>
Some(v) == <<v>>

LowerChar(c) ==
    CASE c = "A" -> "a" [] c = "E" -> "e" [] c = "F" -> "f" [] c = "I" -> "i"
      [] c = "L" -> "l" [] c = "N" -> "n" [] c = "R" -> "r" [] c = "S" -> "s"
      [] c = "T" -> "t" [] c = "U" -> "u" [] c = "Y" -> "y"
      [] OTHER -> c

\* str.lower()
Lower(s) == [i \in 1..Len(s) |-> LowerChar(s[i])]

RECURSIVE LStrip(_)
LStrip(s) == IF s # <<>> /\ s[1] = " " THEN LStrip(Tail(s)) ELSE s

RECURSIVE RStrip(_)
RStrip(s) ==
    IF s # <<>> /\ s[Len(s)] = " " THEN RStrip(SubSeq(s, 1, Len(s) - 1)) ELSE s

\* str.strip()
Strip(s) == RStrip(LStrip(s))

HasSign(s) == s # <<>> /\ s[1] \in {"+", "-"}
Unsigned(s) == IF HasSign(s) THEN Tail(s) ELSE s
IsNegative(s) == s # <<>> /\ s[1] = "-"

\* A digit group: digits, with single underscores allowed between digits.
IsDigitGroup(s) ==
    /\ s # <<>>
    /\ s[1] \in Digits
    /\ s[Len(s)] \in Digits
    /\ \A i \in 1..Len(s) : s[i] \in Digits \cup {"_"}
    /\ \A i \in 1..(Len(s) - 1) : ~(s[i] = "_" /\ s[i + 1] = "_")

RECURSIVE DigitsValue(_, _)
DigitsValue(s, acc) ==
    IF s = <<>> THEN acc
    ELSE IF s[1] = "_" THEN DigitsValue(Tail(s), acc)
    ELSE DigitsValue(Tail(s), 10 * acc + DigitVal(s[1]))

\* int(s) does not raise ValueError.
IntParses(s) == IsDigitGroup(Unsigned(Strip(s)))

\* int(s), where it parses.
IntValue(s) ==
    LET t == Strip(s)
        v == DigitsValue(Unsigned(t), 0)
    IN  IF IsNegative(t) THEN 0 - v ELSE v

DotPositions(s) == {i \in 1..Len(s) : s[i] = "."}

\* The part of a decimal before its "." (all of it when there is none).
IntPart(s) ==
    IF DotPositions(s) = {} THEN s
    ELSE SubSeq(s, 1, (CHOOSE i \in DotPositions(s) : TRUE) - 1)

\* The part of a decimal after its ".".
FracPart(s) ==
    IF DotPositions(s) = {} THEN <<>>
    ELSE SubSeq(s, (CHOOSE i \in DotPositions(s) : TRUE) + 1, Len(s))

IsDecimal(s) ==
    /\ Cardinality(DotPositions(s)) <= 1
    /\ IntPart(s) = <<>> \/ IsDigitGroup(IntPart(s))
    /\ FracPart(s) = <<>> \/ IsDigitGroup(FracPart(s))
    /\ IntPart(s) # <<>> \/ FracPart(s) # <<>>

IsNanText(s) == Lower(s) = <<"n", "a", "n">>
IsInfText(s) ==
    Lower(s) \in {<<"i", "n", "f">>, <<"i", "n", "f", "i", "n", "i", "t", "y">>}

\* float(s) does not raise ValueError.
FloatParses(s) ==
    LET u == Unsigned(Strip(s))
    IN  IsNanText(u) \/ IsInfText(u) \/ IsDecimal(u)

RECURSIVE DropTrailingZeros(_)
DropTrailingZeros(s) ==
    IF s # <<>> /\ s[Len(s)] = "0"
    THEN DropTrailingZeros(SubSeq(s, 1, Len(s) - 1))
    ELSE s

Underscores(s) == Cardinality({i \in 1..Len(s) : s[i] = "_"})

\* float(s), where it parses: nan, a signed infinity, or the signed decimal
\* mant / 10^scale with no trailing zero in the fraction.
FloatValue(s) ==
    LET t == Strip(s)
        u == Unsigned(t)
        f == DropTrailingZeros(FracPart(u))
    IN  IF IsNanText(u) THEN [kind |-> "nan"]
        ELSE IF IsInfText(u) THEN [kind |-> "inf", neg |-> IsNegative(t)]
        ELSE [kind |-> "num", neg |-> IsNegative(t),
              mant |-> DigitsValue(f, DigitsValue(IntPart(u), 0)),
              scale |-> Len(f) - Underscores(f)]

(***************************************************************************)
(* read_battle_records.py: Err and the team sub-decoders.                  *)
(***************************************************************************)
\* Err(msg): text is the message's literal text (an f-string's template),
\* args the values interpolated into it, in order.
Err(text, args) == [kind |-> "Err", text |-> text, args |-> args]

IsErr(v) == v.kind = "Err"

ALPHA_TEAM == "alpha"
BRAVO_TEAM == "bravo"
TEAM_KEYS == {"alpha", "bravo"}

RankedPerformance(count) == [kind |-> "RankedPerformance", count |-> count]

TurfWarPerformance(inked, inked_percent) ==
    [kind |-> "TurfWarPerformance", inked |-> inked,
     inked_percent |-> inked_percent]

NoPerformance == [kind |-> "None"]

\* Faulty variant: the closing all-empty test is dropped, so whatever reaches the
\* end of the function counts as no performance data.
create_team_performance_no_final_check(team, raw_inked, raw_inked_percent, raw_count) ==
    IF raw_count # <<>> THEN
        IF IntParses(raw_count)
        THEN RankedPerformance(IntValue(raw_count))
        ELSE Err("Invalid count data for team {}: {}", <<team, raw_count>>)
    ELSE IF raw_inked_percent # <<>> THEN
        IF (raw_inked = <<>> \/ IntParses(raw_inked))
           /\ FloatParses(raw_inked_percent)
        THEN TurfWarPerformance(
                 IF raw_inked = <<>> THEN None ELSE Some(IntValue(raw_inked)),
                 FloatValue(raw_inked_percent))
        ELSE Err("Invalid turf-war performance data for team {}inked: {}, inked_percent: {}",
                 <<team, raw_inked, raw_inked_percent>>)
    ELSE NoPerformance

create_team_performance(team, raw_inked, raw_inked_percent, raw_count) ==
    IF raw_count # <<>> THEN
        IF IntParses(raw_count)
        THEN RankedPerformance(IntValue(raw_count))
        ELSE Err("Invalid count data for team {}: {}", <<team, raw_count>>)
    ELSE IF raw_inked_percent # <<>> THEN
        \* int(raw_inked) is evaluated before float(raw_inked_percent);
        \* either ValueError is caught by the same handler.
        IF (raw_inked = <<>> \/ IntParses(raw_inked))
           /\ FloatParses(raw_inked_percent)
        THEN TurfWarPerformance(
                 IF raw_inked = <<>> THEN None ELSE Some(IntValue(raw_inked)),
                 FloatValue(raw_inked_percent))
        ELSE Err("Invalid turf-war performance data for team {}inked: {}, inked_percent: {}",
                 <<team, raw_inked, raw_inked_percent>>)
    ELSE IF raw_inked = <<>> /\ raw_inked_percent = <<>> /\ raw_count = <<>>
    THEN NoPerformance
    ELSE Err("Invalid performance data for team {}inked: {}, inked_percent: {},count: {}",
             <<team, raw_inked, raw_inked_percent, raw_count>>)

(***************************************************************************)
(* battle_record.py: catalogs and membership validators.                   *)
(***************************************************************************)
\* KIT_DATA is not part of the sources at hand: a sample of loadout keys.
KIT_KEYS == {"sshooter", "52gal", "wakaba", "splatroller", "order_shooter_replica"}

\* STAGE_DATA is not part of the sources at hand: a sample of stage keys.
STAGE_KEYS == {"yunohana", "masaba", "gonzui"}

ABILITY_KEYS ==
    {"ink_saver_main", "ink_saver_sub", "ink_recovery_up", "run_speed_up",
     "swim_speed_up", "special_charge_up", "special_saver", "special_power_up",
     "quick_respawn", "quick_super_jump", "sub_power_up", "ink_resistance_up",
     "sub_resistance_up", "intensify_action", "opening_gambit",
     "last_ditch_effort", "tenacity", "comeback", "ninja_squid", "haunt",
     "thermal_ink", "respawn_punisher", "ability_doubler", "stealth_jump",
     "object_shredder", "drop_roller"}

LOBBY_KEYS ==
    {"regular", "bankara_challenge", "bankara_open", "xmatch",
     "splatfest_challenge", "splatfest_open", "event"}

MODE_KEYS == {"nawabari", "area", "yagura", "hoko", "asari"}

MEDAL_GRADES == {"gold", "silver"}

is_weapon_key(key) == key \in KIT_KEYS
is_ability_key(key) == key \in ABILITY_KEYS
is_stage_key(key) == key \in STAGE_KEYS
is_lobby_key(key) == key \in LOBBY_KEYS
is_mode_key(key) == key \in MODE_KEYS
is_team_key(key) == key \in TEAM_KEYS
is_medal_grade(key) == key \in MEDAL_GRADES

(***************************************************************************)
(* Outcomes of evaluating an expression: a value, or a raised exception.   *)
(***************************************************************************)
Ok(v) == [kind |-> "Ok", v |-> v]
Raise(exc) == [kind |-> "Raise", exc |-> exc]
IsRaise(o) == o.kind = "Raise"

\* data[col]: KeyError when the row has no such column.
Get(data, col) ==
    IF col \in DOMAIN data THEN Ok(data[col]) ELSE Raise("KeyError")

\* int(data[col])
GetInt(data, col) ==
    IF col \notin DOMAIN data THEN Raise("KeyError")
    ELSE IF IntParses(data[col]) THEN Ok(IntValue(data[col]))
    ELSE Raise("ValueError")

\* The first raised exception among outcomes evaluated in sequence order,
\* or the outcome Ok(None) when none raises.
RECURSIVE FirstRaise(_)
FirstRaise(outcomes) ==
    IF outcomes = <<>> THEN Ok(None)
    ELSE IF IsRaise(outcomes[1]) THEN outcomes[1]
    ELSE FirstRaise(Tail(outcomes))

(***************************************************************************)
(* json.loads and datetime.fromisoformat, tabulated on the sample texts    *)
(* the rows below use.  A JSON object is the sequence of its (key, value)  *)
(* items in document order; a JSON number is kept as its literal.          *)
(***************************************************************************)
JNum(lit) == [kind |-> "number", lit |-> lit]
JStr(s) == [kind |-> "string", s |-> s]
JNull == [kind |-> "null"]
JArray == [kind |-> "array"]
JObject(items) == [kind |-> "object", items |-> items]
JSONDecodeError == [kind |-> "JSONDecodeError"]

JsonLoads(text) ==
    CASE text = "{}" -> JObject(<<>>)
      [] text = "{\"ink_saver_main\": 1.0}" ->
            JObject(<< <<"ink_saver_main", JNum(<<"1", ".", "0">>)>> >>)
      [] text = "{\"swim_speed_up\": 0.3, \"comeback\": 1}" ->
            JObject(<< <<"swim_speed_up", JNum(<<"0", ".", "3">>)>>,
                       <<"comeback", JNum(<<"1">>)>> >>)
      [] text = "{\"ninja_squid\": \"1.5\"}" ->
            JObject(<< <<"ninja_squid", JStr(<<"1", ".", "5">>)>> >>)
      [] text = "{\"haunt\": -1.0}" ->
            JObject(<< <<"haunt", JNum(<<"-", "1", ".", "0">>)>> >>)
      [] text = "{\"tenacity\": NaN}" ->
            JObject(<< <<"tenacity", JNum(<<"n", "a", "n">>)>> >>)
      [] text = "{\"bogus\": 1.0}" ->
            JObject(<< <<"bogus", JNum(<<"1", ".", "0">>)>> >>)
      [] text = "{\"bogus\": 1.0, \"comeback\": 1, \"nope\": 2}" ->
            JObject(<< <<"bogus", JNum(<<"1", ".", "0">>)>>,
                       <<"comeback", JNum(<<"1">>)>>,
                       <<"nope", JNum(<<"2">>)>> >>)
      [] text = "{\"comeback\": \"lots\"}" ->
            JObject(<< <<"comeback", JStr(<<"l", "o", "t", "s">>)>> >>)
      [] text = "{\"comeback\": null}" ->
            JObject(<< <<"comeback", JNull>> >>)
      [] text = "{\"comeback\": [1]}" ->
            JObject(<< <<"comeback", JArray>> >>)
      [] text = "{\"comeback\": \"lots\", \"haunt\": null}" ->
            JObject(<< <<"comeback", JStr(<<"l", "o", "t", "s">>)>>,
                       <<"haunt", JNull>> >>)
      [] text = "[1, 2]" -> JArray
      [] text = "null" -> JNull
      [] text = "3" -> JNum(<<"3">>)
      [] OTHER -> JSONDecodeError

\* Texts datetime.fromisoformat accepts, among those the rows below use.
IsoTexts == {"2022-12-01T00:00:00+00:00", "2023-03-01T02:00:00+00:00"}

\* datetime.fromisoformat(text): the datetime is kept as its ISO text.
FromIsoFormat(text) ==
    IF text \in IsoTexts THEN Ok([kind |-> "datetime", iso |-> text])
    ELSE Raise("ValueError")

(***************************************************************************)
(* read_battle_records.py: the sub-decoders of one row.  A row is a        *)
(* function from column names to texts; every result is a record tagged    *)
(* by kind: a value, an Err, or a raised exception (Raise).                *)
(***************************************************************************)
\* float(value) for a value json.loads produced.
FloatOfJson(jv) ==
    IF jv.kind = "number" THEN Ok(FloatValue(jv.lit))
    ELSE IF jv.kind = "string" THEN
        IF FloatParses(jv.s) THEN Ok(FloatValue(jv.s)) ELSE Raise("ValueError")
    ELSE Raise("TypeError")

AbilitiesDict(items) ==
    [kind |-> "dict",
     items |-> [k \in {items[i][1] : i \in 1..Len(items)} |->
                  FloatOfJson(
                      items[CHOOSE i \in 1..Len(items) : items[i][1] = k][2]).v]]

parse_abilities(abilities_json) ==
    LET loaded == JsonLoads(abilities_json)
        bad_keys == {loaded.items[i][1] : i \in
                        {j \in 1..Len(loaded.items) :
                            ~is_ability_key(loaded.items[j][1])}}
        floats == [i \in 1..Len(loaded.items) |-> FloatOfJson(loaded.items[i][2])]
        first == FirstRaise(floats)
    IN  IF loaded = JSONDecodeError
        THEN Err("Failed to decode abilities JSON. {e}", <<abilities_json>>)
        \* loaded.keys() on a value that is not a dict
        ELSE IF loaded.kind # "object" THEN Raise("AttributeError")
        ELSE IF bad_keys # {}
        THEN Err("Invalid ability key found in abilities JSON: {bad_keys}",
                 <<bad_keys>>)
        ELSE IF ~IsRaise(first) THEN AbilitiesDict(loaded.items)
        ELSE IF first.exc = "ValueError"
        THEN Err("Failed to convert ability value to float. {e}", <<abilities_json>>)
        ELSE first

is_valid_member_num(member_num) == 1 <= member_num /\ member_num <= 4

\* team[0].upper()
TeamLetter(team) == IF team = "alpha" THEN "A" ELSE "B"

\* f"{team[0].upper()}{member_num}"
ParticipantId(team, member_num) == TeamLetter(team) \o ToString(member_num)

CounterColumns ==
    <<"-kill-assist", "-kill", "-assist", "-death", "-special", "-inked">>

\* parse_abilities(data[f"{id_}-abilities"])
GetAbilities(data, col) ==
    IF col \in DOMAIN data THEN parse_abilities(data[col]) ELSE Raise("KeyError")

BattleParticipant(team, member_num, weapon, counters, abilities) ==
    [kind |-> "BattleParticipant",
     team |-> team,
     team_member_num |-> member_num,
     weapon |-> weapon,
     num_kills_and_assists |-> counters[1].v,
     num_kills |-> counters[2].v,
     num_assists |-> counters[3].v,
     num_deaths |-> counters[4].v,
     num_special_uses |-> counters[5].v,
     turf_inked |-> counters[6].v,
     abilities |-> abilities]

\* Faulty variant: the weapon key is not validated.
create_participant_any_weapon(data, team, member_num) ==
    LET id_ == ParticipantId(team, member_num)
        weapon_key == Get(data, id_ \o "-weapon")
        counters == [i \in 1..6 |-> GetInt(data, id_ \o CounterColumns[i])]
        abilities == GetAbilities(data, id_ \o "-abilities")
        first == FirstRaise(counters \o <<abilities>>)
    IN  IF IsRaise(weapon_key) THEN weapon_key
        ELSE IF IsRaise(first) THEN first
        ELSE BattleParticipant(team, member_num, weapon_key.v, counters,
                               abilities)

create_participant(data, team, member_num) ==
    LET id_ == ParticipantId(team, member_num)
        weapon_key == Get(data, id_ \o "-weapon")
        counters == [i \in 1..6 |-> GetInt(data, id_ \o CounterColumns[i])]
        abilities == GetAbilities(data, id_ \o "-abilities")
        first == FirstRaise(counters \o <<abilities>>)
    IN  IF IsRaise(weapon_key) THEN weapon_key
        ELSE IF is_valid_member_num(member_num) /\ is_weapon_key(weapon_key.v)
        THEN IF IsRaise(first) THEN first
             \* the result of parse_abilities is stored as it is
             ELSE BattleParticipant(team, member_num, weapon_key.v, counters,
                                    abilities)
        \* the message is a plain string, not an f-string
        ELSE Err("Invalid weapon key. {weapon_key}", <<>>)

TeamCharacteristics(team, color, performance, theme) ==
    [kind |-> "TeamCharacteristics", team |-> team, color |-> color,
     performance |-> performance, theme |-> theme]

create_team_characteristics(data, team) ==
    LET raw_color == Get(data, team \o "-color")
        raw_inked == Get(data, team \o "-inked")
        raw_inked_percent == Get(data, team \o "-ink-percent")
        raw_count == Get(data, team \o "-count")
        first == FirstRaise(<<raw_color, raw_inked, raw_inked_percent, raw_count>>)
        color == IF raw_color.v = <<>> THEN None ELSE Some(raw_color.v)
        performance == create_team_performance(
                           team, raw_inked.v, raw_inked_percent.v, raw_count.v)
        theme == Get(data, team \o "-theme")
    IN  IF IsRaise(first) THEN first
        ELSE IF IsErr(performance) THEN performance
        ELSE IF color = None \/ is_color_string(color[1])
        THEN IF IsRaise(theme) THEN theme
             ELSE TeamCharacteristics(team, color, performance, theme.v)
        ELSE Err("Invalid color key: '{}'", <<raw_color.v>>)

Medal(name, grade) == [kind |-> "Medal", name |-> name, grade |-> grade]
NoMedal == [kind |-> "None"]

\* Faulty variant: the grade is not validated.
create_medal_any_grade(data, medal_num) ==
    LET grade == Get(data, "medal" \o ToString(medal_num) \o "-grade")
        name == Get(data, "medal" \o ToString(medal_num) \o "-name")
    IN  IF IsRaise(grade) THEN grade
        ELSE IF IsRaise(name) THEN name
        ELSE IF grade.v = "" THEN NoMedal
        ELSE Medal(name.v, grade.v)

create_medal(data, medal_num) ==
    LET grade == Get(data, "medal" \o ToString(medal_num) \o "-grade")
        name == Get(data, "medal" \o ToString(medal_num) \o "-name")
    IN  IF IsRaise(grade) THEN grade
        ELSE IF IsRaise(name) THEN name
        ELSE IF grade.v = "" THEN NoMedal
        ELSE IF is_medal_grade(grade.v) THEN Medal(name.v, grade.v)
        ELSE Err("Invalid medal grade: {}", <<grade.v>>)

is_medal_number(medal_num) == 1 <= medal_num /\ medal_num <= 3

(***************************************************************************)
(* read_battle_records.py: battle_record_for_row.                          *)
(***************************************************************************)
\* {(team, i) for i in [1, 2, 3, 4] for team in [ALPHA_TEAM, BRAVO_TEAM]}
ParticipantKeySet == {<<team, i>> : team \in {ALPHA_TEAM, BRAVO_TEAM}, i \in 1..4}

\* The elements of a sequence that are Err values, in order.
ErrsOf(results) == SelectSeq(results, IsErr)

\* Faulty variant: the comparison made without lower().
KnockoutOf_case_sensitive(text) == text = <<"t", "r", "u", "e">>

\* row["knockout"].lower() == "true"
KnockoutOf(text) == Lower(text) = <<"t", "r", "u", "e">>

\* float(row["power"]) if row["power"] else None
PowerOf(row) ==
    IF "power" \notin DOMAIN row THEN Raise("KeyError")
    ELSE IF row["power"] = <<>> THEN Ok(None)
    ELSE IF FloatParses(row["power"]) THEN Ok(Some(FloatValue(row["power"])))
    ELSE Raise("ValueError")

\* datetime.fromisoformat(row["period"])
PeriodOf(row) ==
    IF "period" \notin DOMAIN row THEN Raise("KeyError")
    ELSE FromIsoFormat(row["period"])

\* row["knockout"].lower() == "true"
KnockoutOutcome(row) ==
    IF "knockout" \notin DOMAIN row THEN Raise("KeyError")
    ELSE Ok(KnockoutOf(row["knockout"]))

\* The BattleRecord(...) call: its arguments are evaluated in the order
\* written, and the first exception propagates.
BattleRecord(row, lobby_key, mode_key, stage_key, winner_key, rank_str, team_characteristics, participants, medals) ==
    LET season == Get(row, "# season")
        period == PeriodOf(row)
        game_version == Get(row, "game-ver")
        length == GetInt(row, "time")
        knockout == KnockoutOutcome(row)
        power == PowerOf(row)
        event_name == Get(row, "event")
        first == FirstRaise(<<season, period, game_version, length, knockout,
                              power, event_name>>)
    IN  IF IsRaise(first) THEN first
        ELSE [kind |-> "BattleRecord",
              season |-> season.v,
              period |-> period.v,
              game_version |-> game_version.v,
              lobby |-> lobby_key,
              mode |-> mode_key,
              stage |-> stage_key,
              length |-> length.v,
              winning_team |-> winner_key,
              knockout |-> knockout.v,
              rank |-> rank_str,
              power |-> power.v,
              team_characteristics |-> team_characteristics,
              participants |-> participants,
              medals |-> medals,
              event_name |-> event_name.v]

\* The part of battle_record_for_row after the five top-level lookups.
DecodeRow(row_num, row, lobby_key, mode_key, stage_key, winner_key, rank_str) ==
    LET created == [i \in 1..Len(participant_keys) |->
                      create_participant(row, participant_keys[i][1],
                                         participant_keys[i][2])]
        participants ==
            [k \in {participant_keys[i] : i \in 1..Len(participant_keys)} |->
                created[CHOOSE i \in 1..Len(participant_keys) :
                            participant_keys[i] = k]]
        alpha == create_team_characteristics(row, ALPHA_TEAM)
        bravo == create_team_characteristics(row, BRAVO_TEAM)
        team_characteristics ==
            [team \in {ALPHA_TEAM, BRAVO_TEAM} |->
                IF team = ALPHA_TEAM THEN alpha ELSE bravo]
        \* [create_medal(row, i) for i in range(1, 3) if is_medal_number(i)]
        medal_nums == SelectSeq(<<1, 2>>, is_medal_number)
        raw_medals == [j \in 1..Len(medal_nums) |-> create_medal(row, medal_nums[j])]
        medals == SelectSeq(raw_medals, LAMBDA m : m # NoMedal)
    IN  IF IsRaise(FirstRaise(created)) THEN FirstRaise(created)
        ELSE IF ErrsOf(created) # <<>>
        THEN Err("Invalid participant data, skipping row {row_num}. Errors: {errs}",
                 <<row_num, ErrsOf(created)>>)
        ELSE IF IsRaise(alpha) THEN alpha
        ELSE IF IsRaise(bravo) THEN bravo
        ELSE IF ErrsOf(<<alpha, bravo>>) # <<>>
        THEN Err("Invalid team characteristics, skipping row {row_num}. Errors: {errs}",
                 <<row_num, ErrsOf(<<alpha, bravo>>)>>)
        ELSE IF IsRaise(FirstRaise(raw_medals)) THEN FirstRaise(raw_medals)
        ELSE IF ErrsOf(raw_medals) # <<>>
        THEN Err("Invalid medal data, skipping row {row_num}. Errors: {errs}",
                 <<row_num, ErrsOf(raw_medals)>>)
        ELSE IF "# season" \notin DOMAIN row
        THEN Err("Missing season field on row {row_num}. Valid Fields: {row.keys()}",
                 <<row_num, DOMAIN row>>)
        ELSE IF /\ is_lobby_key(lobby_key)
                /\ is_rank_string(rank_str)
                /\ is_mode_key(mode_key)
                /\ is_stage_key(stage_key)
                /\ is_team_key(winner_key)
        THEN BattleRecord(row, lobby_key, mode_key, stage_key, winner_key,
                          rank_str, team_characteristics, participants, medals)
        ELSE IF ~is_lobby_key(lobby_key)
        THEN Err("Invalid lobby key: {lobby_key} on row {row_num}",
                 <<lobby_key, row_num>>)
        ELSE IF ~is_rank_string(rank_str)
        THEN Err("Invalid rank string: {rank_str} on row {row_num}",
                 <<rank_str, row_num>>)
        ELSE IF ~is_mode_key(mode_key)
        THEN Err("Invalid mode key: {mode_key} on row {row_num}",
                 <<mode_key, row_num>>)
        ELSE IF ~is_stage_key(stage_key)
        THEN Err("Invalid stage key: {stage_key} on row {row_num}",
                 <<stage_key, row_num>>)
        ELSE Err("Invalid win key: {winner_key} on row {row_num}",
                 <<winner_key, row_num>>)

\* Faulty variant: the lobby key is validated before anything is decoded.
battle_record_for_row_lobby_first(row_num, row) ==
    LET lobby_key == Get(row, "lobby")
        mode_key == Get(row, "mode")
        stage_key == Get(row, "stage")
        winner_key == Get(row, "win")
        rank_str == Get(row, "rank")
        first == FirstRaise(<<lobby_key, mode_key, stage_key, winner_key, rank_str>>)
    IN  IF IsRaise(first) THEN first
        ELSE IF ~is_lobby_key(lobby_key.v)
        THEN Err("Invalid lobby key: {lobby_key} on row {row_num}",
                 <<lobby_key.v, row_num>>)
        ELSE DecodeRow(row_num, row, lobby_key.v, mode_key.v, stage_key.v,
                       winner_key.v, rank_str.v)

battle_record_for_row(row_num, row) ==
    LET lobby_key == Get(row, "lobby")
        mode_key == Get(row, "mode")
        stage_key == Get(row, "stage")
        winner_key == Get(row, "win")
        rank_str == Get(row, "rank")
        first == FirstRaise(<<lobby_key, mode_key, stage_key, winner_key, rank_str>>)
    IN  IF IsRaise(first) THEN first
        ELSE DecodeRow(row_num, row, lobby_key.v, mode_key.v, stage_key.v,
                       winner_key.v, rank_str.v)

(***************************************************************************)
(* Unit harness: one function of the decoder applied to one input.         *)
(***************************************************************************)
\* Bound: rank texts are all texts over RankAlphabet up to this length.
RankMaxLen == 5

\* Bound: colour texts have up to this many characters.
ColorMaxLen == 9

RankAlphabet == {"S", "D", "+", "-", " ", "0", "5"}

RankInputs ==
    StringsUpTo(RankAlphabet, RankMaxLen)
        \cup {<<"C", "-">>,
              <<"B", "+">>,
              <<"A">>,
              <<"C">>,
              <<"B", "-">>,
              <<"A", "+">>,
              <<"s", "+">>,
              <<"s">>,
              <<"S", "+", " ", "5", "1">>,
              <<"S", "+", " ", "4", "9">>,
              <<"S", "+", " ", "1", "0">>,
              <<"S", "+", " ", "9">>,
              <<"S", "+", " ", "1">>,
              <<"S", "+", " ", "6", "0">>,
              <<"S", "+", " ", "4", "a">>,
              <<"S", "+", " ", "1", "0", "0">>,
              <<"S", "+", " ", " ", "5">>,
              <<" ", "S">>,
              <<"S", " ">>,
              <<"S", "+">>}

\* A colour text: lowercase hex digits, possibly with one character replaced
\* by another digit, an uppercase hex letter, a letter past f, or a space.
ColorOddChars == {"9", "a", "F", "g", " "}

ColorSamples ==
    {<<>>, <<"d", "0", "b", "f", "0", "8", "f", "f">>, <<"1", "a", "2", "b", "3", "c", "f", "f">>, <<"D", "0", "B", "F", "0", "8", "F", "F">>, <<"d", "0", "b", "f", "0", "8", "f">>, <<"d", "0", "b", "f", "0", "8", "f", "f", "0">>, <<"d", "0", "b", "f", "0", "8", "f", "g">>, <<" ", "d", "0", "b", "f", "0", "8", "f", "f">>}

NumberTexts ==
    {<<>>, <<"3">>, <<"1", "2", "0", "0">>, <<"5", "5", ".", "5">>, <<"x">>, <<" ", "7", " ">>, <<"-", "2">>, <<"1", "_", "0">>, <<"n", "a", "n">>, <<"5", ".">>, <<"0">>, <<" ">>, <<"3", ".", "5", ".", "1">>, <<"-", "i", "n", "f">>}

UnitIdle == call = "none" /\ ret = None

StreamUnused ==
    /\ participant_keys = <<>>
    /\ archive = <<>>
    /\ gen = <<>>
    /\ logged = <<>>

Call_is_rank_string ==
    /\ call = "none"
    /\ arg.fn = "is_rank_string"
    /\ call' = "is_rank_string"
    /\ ret' = is_rank_string(arg.key)
    /\ UNCHANGED <<arg, participant_keys, archive, gen, logged>>

RankInit ==
    /\ UnitIdle
    /\ StreamUnused
    /\ arg \in {[fn |-> "is_rank_string", key |-> k] : k \in RankInputs}

RankSpec == RankInit /\ [][Call_is_rank_string]_vars

Call_create_team_performance ==
    /\ call = "none"
    /\ arg.fn = "create_team_performance"
    /\ call' = "create_team_performance"
    /\ ret' = create_team_performance(arg.team, arg.raw_inked,
                                      arg.raw_inked_percent, arg.raw_count)
    /\ UNCHANGED <<arg, participant_keys, archive, gen, logged>>

PerformanceInit ==
    /\ UnitIdle
    /\ StreamUnused
    /\ arg \in {[fn |-> "create_team_performance", team |-> t, raw_inked |-> i,
                 raw_inked_percent |-> p, raw_count |-> c] :
                    t \in TEAM_KEYS, i \in NumberTexts, p \in NumberTexts,
                    c \in NumberTexts}

PerformanceSpec == PerformanceInit /\ [][Call_create_team_performance]_vars

Call_is_color_string ==
    /\ call = "none"
    /\ arg.fn = "is_color_string"
    /\ call' = "is_color_string"
    /\ ret' = is_color_string(arg.key)
    /\ UNCHANGED <<arg, participant_keys, archive, gen, logged>>

Call_create_team_characteristics ==
    /\ call = "none"
    /\ arg.fn = "create_team_characteristics"
    /\ call' = "create_team_characteristics"
    /\ ret' = create_team_characteristics(arg.data, arg.team)
    /\ UNCHANGED <<arg, participant_keys, archive, gen, logged>>

\* The five columns of one team.
TeamColumns(team, color, theme, count, inked, ink_percent) ==
    (team \o "-color" :> color) @@ (team \o "-theme" :> theme)
        @@ (team \o "-count" :> count) @@ (team \o "-inked" :> inked)
        @@ (team \o "-ink-percent" :> ink_percent)

ColorInit ==
    /\ UnitIdle
    /\ StreamUnused
    /\ \/ \E s \in StringsUpTo({"0", "f"}, ColorMaxLen) :
            \/ arg = [fn |-> "is_color_string", key |-> s]
            \/ \E i \in 1..Len(s), c \in ColorOddChars :
                    arg = [fn |-> "is_color_string", key |-> Subst(s, i, c)]
       \/ \E s \in ColorSamples : arg = [fn |-> "is_color_string", key |-> s]
       \/ \E team \in TEAM_KEYS, color \in ColorSamples, theme \in {"", "Shiver"},
             count \in {<<>>, <<"3">>, <<"x">>}, inked \in {<<>>, <<"1", "2", "0", "0">>},
             percent \in {<<>>, <<"5", "5", ".", "5">>} :
                arg = [fn |-> "create_team_characteristics", team |-> team,
                       data |-> TeamColumns(team, color, theme, count, inked,
                                            percent)]

ColorSpec ==
    ColorInit /\ [][Call_is_color_string \/ Call_create_team_characteristics]_vars

(***************************************************************************)
(* Sample rows.  Each has every column of the export's schema.             *)
(***************************************************************************)
\* The eight columns of participant id_.
ParticipantColumns(id_, weapon, kills, abilities) ==
    (id_ \o "-weapon" :> weapon) @@ (id_ \o "-kill-assist" :> <<"7">>)
        @@ (id_ \o "-kill" :> kills) @@ (id_ \o "-assist" :> <<"2">>)
        @@ (id_ \o "-death" :> <<"4">>) @@ (id_ \o "-special" :> <<"3">>)
        @@ (id_ \o "-inked" :> <<"9", "5", "0">>) @@ (id_ \o "-abilities" :> abilities)

\* The four columns of the two medal slots.
MedalColumns(grade1, name1, grade2, name2) ==
    ("medal1-grade" :> grade1) @@ ("medal1-name" :> name1)
        @@ ("medal2-grade" :> grade2) @@ ("medal2-name" :> name2)

AllParticipantColumns(weapon, abilities) ==
    ParticipantColumns("A1", weapon, <<"5">>, abilities)
        @@ ParticipantColumns("A2", "52gal", <<"0">>, "{}")
        @@ ParticipantColumns("A3", "wakaba", <<"1", "_", "0">>, abilities)
        @@ ParticipantColumns("A4", "splatroller", <<"5">>, "{\"swim_speed_up\": 0.3, \"comeback\": 1}")
        @@ ParticipantColumns("B1", weapon, <<" ", "6", " ">>, abilities)
        @@ ParticipantColumns("B2", "order_shooter_replica", <<"5">>, "{}")
        @@ ParticipantColumns("B3", "52gal", <<"+", "5">>, abilities)
        @@ ParticipantColumns("B4", "sshooter", <<"0", "5">>, "{\"haunt\": -1.0}")

\* A ranked battle: counts, a rank, a power and one medal.
RankedRow ==
    ("# season" :> "Chill Season 2022")
        @@ ("period" :> "2022-12-01T00:00:00+00:00")
        @@ ("game-ver" :> "2.0.1") @@ ("lobby" :> "bankara_open")
        @@ ("mode" :> "area") @@ ("stage" :> "masaba") @@ ("time" :> <<"1", "8", "0">>)
        @@ ("win" :> "alpha") @@ ("knockout" :> <<"t", "r", "u", "e">>) @@ ("rank" :> <<"S", "+", " ", "5">>)
        @@ ("power" :> <<"1", "9", "5", "0", ".", "5">>) @@ ("event" :> "")
        @@ TeamColumns("alpha", <<"d", "0", "b", "f", "0", "8", "f", "f">>, "", <<"1", "0", "0">>, <<>>, <<>>)
        @@ TeamColumns("bravo", <<"1", "a", "2", "b", "3", "c", "f", "f">>, "", <<"3", "7">>, <<>>, <<>>)
        @@ AllParticipantColumns("sshooter", "{\"ink_saver_main\": 1.0}")
        @@ MedalColumns("gold", "Big Bang", "", "")

\* A turf war: inked amounts, no rank, no power, no colour, no medal.
TurfRow ==
    ("# season" :> "Fresh Season 2023")
        @@ ("period" :> "2023-03-01T02:00:00+00:00")
        @@ ("game-ver" :> "3.0.0") @@ ("lobby" :> "regular")
        @@ ("mode" :> "nawabari") @@ ("stage" :> "yunohana")
        @@ ("time" :> <<"3", "0", "0">>) @@ ("win" :> "bravo") @@ ("knockout" :> <<"F", "a", "l", "s", "e">>)
        @@ ("rank" :> <<>>) @@ ("power" :> <<>>) @@ ("event" :> "")
        @@ TeamColumns("alpha", <<>>, "Shiver", <<>>, <<"1", "2", "0", "0">>, <<"5", "5", ".", "5">>)
        @@ TeamColumns("bravo", <<>>, "Frye", <<>>, <<>>, <<"4", "4", ".", "5">>)
        @@ AllParticipantColumns("wakaba", "{}")
        @@ MedalColumns("", "", "", "")

BaseRows == {RankedRow, TurfRow}

Columns == DOMAIN RankedRow

ParticipantIds == {"A1", "A2", "A3", "A4", "B1", "B2", "B3", "B4"}

AbilityTexts ==
    {"{}", "{\"ink_saver_main\": 1.0}", "{\"swim_speed_up\": 0.3, \"comeback\": 1}",
     "{\"ninja_squid\": \"1.5\"}", "{\"haunt\": -1.0}", "{\"tenacity\": NaN}",
     "{\"bogus\": 1.0}", "{\"bogus\": 1.0, \"comeback\": 1, \"nope\": 2}",
     "{\"comeback\": \"lots\"}", "{\"comeback\": null}", "{\"comeback\": [1]}",
     "{\"comeback\": \"lots\", \"haunt\": null}", "[1, 2]", "null", "3",
     "not json", ""}

CounterTexts == {<<"0">>, <<"1", "2">>, <<" ", "3", " ">>, <<"x">>, <<>>, <<"1", ".", "5">>}

\* Bound: the number of ability texts parsed in turn in one run.
AbilityCalls == 2

RECURSIVE SeqsOfLen(_, _)
SeqsOfLen(S, n) ==
    IF n = 0 THEN {<<>>}
    ELSE {<<x>> \o rest : x \in S, rest \in SeqsOfLen(S, n - 1)}

\* parse_abilities applied to the next of the pending ability texts, as the
\* participants of a row have their texts parsed one after the other.
Call_parse_abilities ==
    /\ arg.fn = "parse_abilities"
    /\ arg.pending # <<>>
    /\ call' = "parse_abilities"
    /\ ret' = parse_abilities(Head(arg.pending))
    /\ arg' = [arg EXCEPT !.abilities_json = Head(arg.pending),
                          !.pending = Tail(arg.pending)]
    /\ UNCHANGED <<participant_keys, archive, gen, logged>>

AbilitiesInit ==
    /\ UnitIdle
    /\ StreamUnused
    /\ arg \in {[fn |-> "parse_abilities", abilities_json |-> "", pending |-> texts] :
                    texts \in SeqsOfLen(AbilityTexts, AbilityCalls)}

AbilitiesSpec == AbilitiesInit /\ [][Call_parse_abilities]_vars

\* The values tried in each column, valid and invalid.
ParticipantAlternatives(id_) ==
    (id_ \o "-weapon" :> {"52gal", "bogus_gun", ""})
        @@ (id_ \o "-kill-assist" :> CounterTexts)
        @@ (id_ \o "-kill" :> CounterTexts)
        @@ (id_ \o "-assist" :> CounterTexts)
        @@ (id_ \o "-death" :> CounterTexts)
        @@ (id_ \o "-special" :> CounterTexts)
        @@ (id_ \o "-inked" :> CounterTexts)
        @@ (id_ \o "-abilities" :> AbilityTexts)

TeamAlternatives(team) ==
    (team \o "-color" :> ColorSamples)
        @@ (team \o "-theme" :> {"", "Shiver"})
        @@ (team \o "-count" :> {<<>>, <<"3">>, <<"x">>})
        @@ (team \o "-inked" :> {<<>>, <<"1", "2", "0", "0">>, <<"m", "a", "n", "y">>})
        @@ (team \o "-ink-percent" :> {<<>>, <<"5", "5", ".", "5">>, <<"h", "a", "l", "f">>, <<"n", "a", "n">>})

Alternatives ==
    ("# season" :> {"Chill Season 2022", ""})
        @@ ("period" :> {"2023-03-01T02:00:00+00:00", "yesterday", ""})
        @@ ("game-ver" :> {"3.0.0", ""})
        @@ ("lobby" :> {"xmatch", "event", "private", ""})
        @@ ("mode" :> {"hoko", "tricolor", ""})
        @@ ("stage" :> {"gonzui", "nowhere", ""})
        @@ ("time" :> {<<"3", "0", "0">>, <<" ", "4", "2", " ">>, <<"x">>, <<>>, <<"3", ".", "5">>})
        @@ ("win" :> {"alpha", "bravo", "draw", ""})
        @@ ("knockout" :> {<<"t", "r", "u", "e">>, <<"T", "R", "U", "E">>, <<"T", "r", "u", "e">>, <<"f", "a", "l", "s", "e">>, <<>>, <<"y", "e", "s">>, <<" ", "t", "r", "u", "e">>})
        @@ ("rank" :> {<<>>, <<"C", "-">>, <<"S">>, <<"S", "+", " ", "5", "0">>, <<"S", "+", " ", "5", "1">>, <<"D">>, <<"s", "+">>, <<"S", "+", "5", "0">>})
        @@ ("power" :> {<<>>, <<"2", "0", "0", "0">>, <<"1", "9", "5", "0", ".", "5">>, <<"h", "i", "g", "h">>, <<"n", "a", "n">>, <<"0">>})
        @@ ("event" :> {"", "Fest"})
        @@ TeamAlternatives("alpha") @@ TeamAlternatives("bravo")
        @@ ParticipantAlternatives("A1") @@ ParticipantAlternatives("A2")
        @@ ParticipantAlternatives("A3") @@ ParticipantAlternatives("A4")
        @@ ParticipantAlternatives("B1") @@ ParticipantAlternatives("B2")
        @@ ParticipantAlternatives("B3") @@ ParticipantAlternatives("B4")
        @@ ("medal1-grade" :> {"", "gold", "silver", "bronze"})
        @@ ("medal1-name" :> {"", "Big Bang"})
        @@ ("medal2-grade" :> {"", "gold", "silver", "bronze"})
        @@ ("medal2-name" :> {"", "Big Bang"})

\* The row without column col (the export's header lacks it).
Without(row, col) == [c \in DOMAIN row \ {col} |-> row[c]]

\* Edits made two at a time, to reach rows with two faults (or a fault
\* beside an unusual valid value).
PairedEdits ==
    ("# season" :> {""})
        @@ ("lobby" :> {"private"}) @@ ("rank" :> {<<"S", "+", " ", "5", "1">>, <<>>})
        @@ ("mode" :> {"tricolor"}) @@ ("stage" :> {"nowhere"})
        @@ ("win" :> {"draw"}) @@ ("time" :> {<<"x">>, <<" ", "4", "2", " ">>})
        @@ ("power" :> {<<"h", "i", "g", "h">>, <<>>}) @@ ("period" :> {"yesterday"})
        @@ ("knockout" :> {<<"T", "R", "U", "E">>})
        @@ ("alpha-color" :> {<<"D", "0", "B", "F", "0", "8", "F", "F">>}) @@ ("alpha-count" :> {<<"x">>, <<"3">>})
        @@ ("alpha-ink-percent" :> {<<"5", "5", ".", "5">>})
        @@ ("bravo-inked" :> {<<"1", "2", "0", "0">>}) @@ ("bravo-ink-percent" :> {<<"h", "a", "l", "f">>})
        @@ ("A1-weapon" :> {"bogus_gun"}) @@ ("A1-kill" :> {<<"x">>})
        @@ ("A1-abilities" :> {"not json", "{\"bogus\": 1.0}"})
        @@ ("B4-weapon" :> {"bogus_gun"}) @@ ("B4-abilities" :> {"null"})
        @@ ("medal1-grade" :> {"bronze"}) @@ ("medal2-grade" :> {"bronze", "silver"})

\* Iteration orders of the participant_keys set: the order the comprehension
\* builds it in, and one other.
BuildOrder ==
    <<<<"alpha", 1>>, <<"bravo", 1>>, <<"alpha", 2>>, <<"bravo", 2>>,
      <<"alpha", 3>>, <<"bravo", 3>>, <<"alpha", 4>>, <<"bravo", 4>>>>

ParticipantOrders ==
    {BuildOrder,
     <<<<"bravo", 3>>, <<"alpha", 1>>, <<"bravo", 4>>, <<"alpha", 4>>,
       <<"alpha", 2>>, <<"bravo", 1>>, <<"bravo", 2>>, <<"alpha", 3>>>>}

\* The columns of a third medal slot, which some exports carry.
ThirdMedalColumns(grade) ==
    ("medal3-grade" :> grade) @@ ("medal3-name" :> "Splat Zones Guard")

\* A failing value for a column of each of the first three boundaries, and
\* columns that only later steps of the decoder look up.
EarlierFailures ==
    ("A1-weapon" :> "bogus_gun") @@ ("alpha-count" :> <<"x">>)
        @@ ("medal1-grade" :> "bronze")

LaterColumns == {"alpha-color", "bravo-count", "medal1-grade", "medal2-name", "# season", "period"}

Call_battle_record_for_row ==
    /\ call = "none"
    /\ arg.fn = "battle_record_for_row"
    /\ call' = "battle_record_for_row"
    /\ ret' = battle_record_for_row(arg.row_num, arg.row)
    /\ UNCHANGED <<arg, participant_keys, archive, gen, logged>>

RowArg(row_num, row) ==
    [fn |-> "battle_record_for_row", row_num |-> row_num, row |-> row]

RowInit ==
    /\ UnitIdle
    /\ archive = <<>>
    /\ gen = <<>>
    /\ logged = <<>>
    /\ participant_keys \in ParticipantOrders
    /\ \E base \in BaseRows :
        \/ \E row_num \in {0, 41} : arg = RowArg(row_num, base)
        \/ \E c \in Columns : arg = RowArg(0, Without(base, c))
        \/ \E c \in Columns : \E v \in Alternatives[c] :
                arg = RowArg(0, [base EXCEPT ![c] = v])
        \/ \E c1 \in DOMAIN PairedEdits, c2 \in DOMAIN PairedEdits :
            \E v1 \in PairedEdits[c1], v2 \in PairedEdits[c2] :
                arg = RowArg(41, [base EXCEPT ![c1] = v1, ![c2] = v2])
        \/ \E grade3 \in {"gold", "bronze"} :
                arg = RowArg(0, base @@ ThirdMedalColumns(grade3))
        \/ \E c1 \in DOMAIN EarlierFailures, c2 \in LaterColumns :
            /\ c1 # c2
            /\ arg = RowArg(41, Without([base EXCEPT ![c1] = EarlierFailures[c1]], c2))

RowSpec == RowInit /\ [][Call_battle_record_for_row]_vars


(***************************************************************************)
(* read_battle_records.py: battles_from_csv and battle_records_from_zip.   *)
(* A generator runs only between a request of its consumer and its next    *)
(* yield, return or exception.                                             *)
(***************************************************************************)
\* filename.endswith(suffix)
EndsWith(s, suffix) ==
    /\ Len(s) >= Len(suffix)
    /\ SubSeq(s, Len(s) - Len(suffix) + 1, Len(s)) = suffix

CsvSuffix == <<".", "c", "s", "v">>

\* z.open(filename): the archive's directory maps a name to its last entry.
MemberNamed(filename) ==
    CHOOSE j \in 1..Len(archive) :
        /\ archive[j].name = filename
        /\ \A k \in (j + 1)..Len(archive) : archive[k].name # filename

\* The generator object returned by battle_records_from_zip, before its
\* first request: no statement of the body has run.
NewGenerator ==
    [pc |-> "created", member_idx |-> 0, file |-> None, row_num |-> 0,
     value |-> None, zip_open |-> FALSE, open |-> {}, opened |-> <<>>,
     emitted |-> <<>>, exc |-> None]

\* The member stream bound to `file`, as a set: leaving the with block of
\* z.open closes it.
FileInScope(g) == {gen[g].file[i] : i \in 1..Len(gen[g].file)}

\* The path the archive is stored under; any other path cannot be opened.
ArchivePath == "battles.zip"

Running(g) ==
    gen[g].pc \in {"open_zip", "next_member", "read_row", "decoded"}

StreamUnchanged == UNCHANGED <<call, arg, ret, participant_keys, archive>>

\* The consumer asks for the next record: the body starts, or resumes after
\* the yield inside the row loop.
Request(g) ==
    /\ \A h \in DOMAIN gen : ~Running(h)
    /\ gen[g].pc \in {"created", "yielded"}
    /\ gen' = [gen EXCEPT ![g].pc =
                    IF gen[g].pc = "created" THEN "open_zip" ELSE "read_row"]
    /\ UNCHANGED logged
    /\ StreamUnchanged

\* with ZipFile(zip_file_path, "r") as z: ... for info in z.infolist():
OpenZip(g) ==
    /\ gen[g].pc = "open_zip"
    /\ arg.zip_file_path = ArchivePath
    /\ gen' = [gen EXCEPT ![g].zip_open = TRUE,
                          ![g].member_idx = 1,
                          ![g].pc = "next_member"]
    /\ UNCHANGED logged
    /\ StreamUnchanged

\* ZipFile(zip_file_path, "r") raises: there is no such file, or the file is
\* not a zip archive.  Nothing is open and nothing catches the exception.
OpenZipFails(g) ==
    /\ gen[g].pc = "open_zip"
    /\ arg.zip_file_path # ArchivePath
    /\ gen' = [gen EXCEPT
                 ![g].exc = Some(IF arg.zip_file_path = "missing.zip"
                                 THEN "FileNotFoundError" ELSE "BadZipFile"),
                 ![g].pc = "raised"]
    /\ UNCHANGED logged
    /\ StreamUnchanged

\* Faulty variant: the sequences share one reader per member, so a sequence
\* that opens a member another sequence is reading starts at that
\* sequence's position.
OpenMember_shared_reader(g) ==
    /\ gen[g].pc = "next_member"
    /\ gen[g].member_idx <= Len(archive)
    /\ EndsWith(archive[gen[g].member_idx].name, CsvSuffix)
    /\ LET opened == MemberNamed(archive[gen[g].member_idx].name)
           readers == {h \in DOMAIN gen : h # g /\ gen[h].file = Some(opened)}
       IN  gen' = [gen EXCEPT
                     ![g].file = Some(opened),
                     ![g].open = @ \cup {opened},
                     ![g].opened = Append(@, opened),
                     ![g].row_num = IF readers = {} THEN 0
                                    ELSE gen[CHOOSE h \in readers : TRUE].row_num,
                     ![g].pc = "read_row"]
    /\ UNCHANGED logged
    /\ StreamUnchanged

\* if filename.endswith(".csv"): with z.open(filename) as file:
OpenMember(g) ==
    /\ gen[g].pc = "next_member"
    /\ gen[g].member_idx <= Len(archive)
    /\ EndsWith(archive[gen[g].member_idx].name, CsvSuffix)
    /\ gen' = [gen EXCEPT
                 ![g].file = Some(MemberNamed(archive[gen[g].member_idx].name)),
                 ![g].open = @ \cup {MemberNamed(archive[gen[g].member_idx].name)},
                 ![g].opened = Append(@, MemberNamed(archive[gen[g].member_idx].name)),
                 ![g].row_num = 0,
                 ![g].pc = "read_row"]
    /\ UNCHANGED logged
    /\ StreamUnchanged

\* A member whose name does not end in ".csv": the loop goes on.
SkipMember(g) ==
    /\ gen[g].pc = "next_member"
    /\ gen[g].member_idx <= Len(archive)
    /\ ~EndsWith(archive[gen[g].member_idx].name, CsvSuffix)
    /\ gen' = [gen EXCEPT ![g].member_idx = @ + 1]
    /\ UNCHANGED logged
    /\ StreamUnchanged

\* The member loop ends: the with block closes the archive and the generator
\* returns.
EndOfArchive(g) ==
    /\ gen[g].pc = "next_member"
    /\ gen[g].member_idx > Len(archive)
    /\ gen' = [gen EXCEPT ![g].zip_open = FALSE, ![g].pc = "done"]
    /\ UNCHANGED logged
    /\ StreamUnchanged

\* Rows of a member, by label: two valid rows, a row with an unknown weapon,
\* a row with a non-numeric counter, a row with unparsable ability JSON.
StreamRows ==
    ("ranked" :> RankedRow)
        @@ ("turf" :> TurfRow)
        @@ ("bad_weapon" :> [RankedRow EXCEPT !["A1-weapon"] = "bogus_gun"])
        @@ ("bad_counter" :> [TurfRow EXCEPT !["A1-kill"] = <<"x">>])
        @@ ("bad_json" :> [RankedRow EXCEPT !["B2-abilities"] = "not json"])

\* The row the reader of the open member delivers next.
NextLabel(g) == archive[gen[g].file[1]].rows[gen[g].row_num + 1]
NextRow(g) == StreamRows[NextLabel(g)]

\* A stretch of the member that cannot be decompressed or is not UTF-8 text.
Undecodable == "undecodable"

\* Faulty variant: the failure of the reader is caught like a malformed row:
\* it is logged, the rest of the member is dropped and the member loop goes
\* on.
ReadFails_caught(g) ==
    /\ gen[g].pc = "read_row"
    /\ gen[g].row_num < Len(archive[gen[g].file[1]].rows)
    /\ NextLabel(g) = Undecodable
    /\ gen' = [gen EXCEPT ![g].file = None,
                          ![g].open = @ \ FileInScope(g),
                          ![g].member_idx = @ + 1,
                          ![g].pc = "next_member"]
    /\ logged' = Append(logged, Err("Unreadable member", <<>>))
    /\ StreamUnchanged

\* Reading the next row raises inside the reader: nothing catches the
\* exception, the with blocks close the member and the archive, and the
\* consumer's request raises it.
ReadFails(g) ==
    /\ gen[g].pc = "read_row"
    /\ gen[g].row_num < Len(archive[gen[g].file[1]].rows)
    /\ NextLabel(g) = Undecodable
    /\ gen' = [gen EXCEPT ![g].file = None,
                          ![g].open = @ \ FileInScope(g),
                          ![g].zip_open = FALSE,
                          ![g].exc = Some("UnicodeDecodeError"),
                          ![g].pc = "raised"]
    /\ UNCHANGED logged
    /\ StreamUnchanged

\* with_errs: the reader delivers a row and battle_record_for_row decodes it
\* under the row's index.
Decode(g) ==
    /\ gen[g].pc = "read_row"
    /\ gen[g].row_num < Len(archive[gen[g].file[1]].rows)
    /\ NextLabel(g) \in DOMAIN StreamRows
    /\ gen' = [gen EXCEPT
                 ![g].value = Some(battle_record_for_row(gen[g].row_num, NextRow(g))),
                 ![g].row_num = @ + 1,
                 ![g].pc = "decoded"]
    /\ UNCHANGED logged
    /\ StreamUnchanged

\* Faulty variant: when a record is yielded the reader has already taken the
\* row after it.
RowYielded_read_ahead(g) ==
    /\ gen[g].pc = "decoded"
    /\ ~IsRaise(gen[g].value[1])
    /\ ~IsErr(gen[g].value[1])
    /\ gen' = [gen EXCEPT ![g].emitted = Append(@, gen[g].value[1]),
                          ![g].value = None,
                          ![g].row_num =
                              IF @ < Len(archive[gen[g].file[1]].rows) THEN @ + 1 ELSE @,
                          ![g].pc = "yielded"]
    /\ UNCHANGED logged
    /\ StreamUnchanged

\* battles_from_csv: the value is a record; it is yielded to the consumer.
RowYielded(g) ==
    /\ gen[g].pc = "decoded"
    /\ ~IsRaise(gen[g].value[1])
    /\ ~IsErr(gen[g].value[1])
    /\ gen' = [gen EXCEPT ![g].emitted = Append(@, gen[g].value[1]),
                          ![g].value = None,
                          ![g].pc = "yielded"]
    /\ UNCHANGED logged
    /\ StreamUnchanged

\* battles_from_csv: the value is an Err; value.log() and continue.
RowLogged(g) ==
    /\ gen[g].pc = "decoded"
    /\ IsErr(gen[g].value[1])
    /\ logged' = Append(logged, gen[g].value[1])
    /\ gen' = [gen EXCEPT ![g].value = None, ![g].pc = "read_row"]
    /\ StreamUnchanged

\* battle_record_for_row raised: nothing catches the exception, the with
\* blocks close the member and the archive, and the consumer's request
\* raises it.
RowRaised(g) ==
    /\ gen[g].pc = "decoded"
    /\ IsRaise(gen[g].value[1])
    /\ gen' = [gen EXCEPT ![g].file = None,
                          ![g].open = @ \ FileInScope(g),
                          ![g].zip_open = FALSE,
                          ![g].value = None,
                          ![g].exc = Some(gen[g].value[1].exc),
                          ![g].pc = "raised"]
    /\ UNCHANGED logged
    /\ StreamUnchanged

\* Faulty variant: the member is opened without a with block and is never
\* closed.
EndOfMember_left_open(g) ==
    /\ gen[g].pc = "read_row"
    /\ gen[g].row_num >= Len(archive[gen[g].file[1]].rows)
    /\ gen' = [gen EXCEPT ![g].file = None,
                          ![g].member_idx = @ + 1,
                          ![g].pc = "next_member"]
    /\ UNCHANGED logged
    /\ StreamUnchanged

\* The reader is exhausted: the member is closed and the member loop goes on.
EndOfMember(g) ==
    /\ gen[g].pc = "read_row"
    /\ gen[g].row_num >= Len(archive[gen[g].file[1]].rows)
    /\ gen' = [gen EXCEPT ![g].file = None,
                          ![g].open = @ \ FileInScope(g),
                          ![g].member_idx = @ + 1,
                          ![g].pc = "next_member"]
    /\ UNCHANGED logged
    /\ StreamUnchanged

\* The consumer closes the generator (or drops it): GeneratorExit is raised
\* at the yield and the with blocks close what is open; a generator that
\* never started has opened nothing.
Close(g) ==
    /\ \A h \in DOMAIN gen : ~Running(h)
    /\ gen[g].pc \in {"created", "yielded"}
    /\ gen' = [gen EXCEPT ![g].file = None,
                          ![g].open = @ \ FileInScope(g),
                          ![g].zip_open = FALSE,
                          ![g].pc = "closed"]
    /\ UNCHANGED logged
    /\ StreamUnchanged

(***************************************************************************)
(* Archives read by the stream.                                            *)
(***************************************************************************)
\* Bound: members of an archive.
MaxMembers == 2

\* Bound: rows of all the members of an archive together.
MaxTotalRows == 2

\* Name of the i-th member: a CSV file, another file or a directory entry.
TxtSuffix == <<".", "t", "x", "t">>
DirSuffix == <<"/">>
MemberSuffixes == {CsvSuffix, TxtSuffix, DirSuffix}
MemberName(i, suffix) == <<"m", ToString(i)>> \o suffix

\* The number of rows of the members before member i.
RECURSIVE RowsBefore(_, _)
RowsBefore(counts, i) ==
    IF i = 1 THEN 0 ELSE RowsBefore(counts, i - 1) + counts[i - 1]

\* The archive whose i-th member has the i-th suffix and the next counts[i]
\* of the rows.  A file that is not a CSV file has some content, which is
\* immaterial; a directory entry has none.
ArchiveOf(suffixes, counts, rows) ==
    [i \in 1..Len(suffixes) |->
        [name |-> MemberName(i, suffixes[i]),
         rows |-> IF suffixes[i] = CsvSuffix
                  THEN SubSeq(rows, RowsBefore(counts, i) + 1,
                              RowsBefore(counts, i) + counts[i])
                  ELSE IF suffixes[i] = TxtSuffix THEN <<"ranked">>
                  ELSE <<>>]]

Consumers == {1}

Init ==
    /\ call = "stream"
    /\ arg = [fn |-> "battle_records_from_zip", zip_file_path |-> ArchivePath]
    /\ ret = None
    /\ participant_keys = BuildOrder
    /\ \E n \in 0..MaxMembers :
        \E suffixes \in [1..n -> MemberSuffixes], counts \in [1..n -> 0..MaxTotalRows] :
            /\ RowsBefore(counts, n + 1) <= MaxTotalRows
            /\ \A i \in 1..n : suffixes[i] # CsvSuffix => counts[i] = 0
            /\ \E rows \in [1..RowsBefore(counts, n + 1) -> DOMAIN StreamRows] :
                    archive = ArchiveOf(suffixes, counts, rows)
    /\ gen = [g \in Consumers |-> NewGenerator]
    /\ logged = <<>>

Next ==
    \E g \in Consumers :
        \/ Request(g)
        \/ OpenZip(g)
        \/ OpenMember(g)
        \/ SkipMember(g)
        \/ EndOfArchive(g)
        \/ Decode(g)
        \/ RowYielded(g)
        \/ RowLogged(g)
        \/ RowRaised(g)
        \/ EndOfMember(g)
        \/ Close(g)

Spec == Init /\ [][Next]_vars

(***************************************************************************)
(* Two sequences over one archive, consumed by one thread in any           *)
(* interleaving of requests and closes.                                    *)
(***************************************************************************)
TwoConsumers == {1, 2}

\* Rows of the archives read twice: a valid row, a row that is logged and a
\* row that raises.
TwoRows == {"turf", "bad_weapon", "bad_counter"}

TwoInit ==
    /\ call = "stream"
    /\ arg = [fn |-> "battle_records_from_zip", zip_file_path |-> ArchivePath]
    /\ ret = None
    /\ participant_keys = BuildOrder
    /\ \E n \in 0..MaxMembers :
        \E suffixes \in [1..n -> {CsvSuffix, TxtSuffix}], counts \in [1..n -> 0..MaxTotalRows] :
            /\ RowsBefore(counts, n + 1) <= MaxTotalRows
            /\ \A i \in 1..n : suffixes[i] # CsvSuffix => counts[i] = 0
            /\ \E rows \in [1..RowsBefore(counts, n + 1) -> TwoRows] :
                    archive = ArchiveOf(suffixes, counts, rows)
    /\ gen = [g \in TwoConsumers |-> NewGenerator]
    /\ logged = <<>>

TwoNext ==
    \E g \in TwoConsumers :
        \/ Request(g)
        \/ OpenZip(g)
        \/ OpenMember(g)
        \/ SkipMember(g)
        \/ EndOfArchive(g)
        \/ Decode(g)
        \/ RowYielded(g)
        \/ RowLogged(g)
        \/ RowRaised(g)
        \/ EndOfMember(g)
        \/ Close(g)

TwoSpec == TwoInit /\ [][TwoNext]_vars


(***************************************************************************)
(* One sequence over a path that may not be an archive, or over an archive *)
(* with members that cannot be read to their end.                          *)
(***************************************************************************)
\* The archive's path, a path with no file and a path of a file that is not
\* a zip archive.
ZipPaths == {ArchivePath, "missing.zip", "notes.txt"}

FaultRows == {"ranked", "bad_weapon", "bad_counter", Undecodable}

FaultInit ==
    /\ call = "stream"
    /\ ret = None
    /\ participant_keys = BuildOrder
    /\ \E path \in ZipPaths :
        /\ arg = [fn |-> "battle_records_from_zip", zip_file_path |-> path]
        /\ \E n \in 0..MaxMembers :
            \E suffixes \in [1..n -> MemberSuffixes], counts \in [1..n -> 0..MaxTotalRows] :
                /\ path # ArchivePath => n = 0
                /\ RowsBefore(counts, n + 1) <= MaxTotalRows
                /\ \A i \in 1..n : suffixes[i] # CsvSuffix => counts[i] = 0
                /\ \E rows \in [1..RowsBefore(counts, n + 1) -> FaultRows] :
                        archive = ArchiveOf(suffixes, counts, rows)
    /\ gen = [g \in Consumers |-> NewGenerator]
    /\ logged = <<>>

FaultNext ==
    \E g \in Consumers :
        \/ Request(g)
        \/ OpenZip(g)
        \/ OpenZipFails(g)
        \/ OpenMember(g)
        \/ SkipMember(g)
        \/ EndOfArchive(g)
        \/ Decode(g)
        \/ ReadFails(g)
        \/ RowYielded(g)
        \/ RowLogged(g)
        \/ RowRaised(g)
        \/ EndOfMember(g)
        \/ Close(g)

FaultSpec == FaultInit /\ [][FaultNext]_vars

(***************************************************************************)
(* One sequence over an archive in which a name may occur more than once:  *)
(* a zip archive is a list of members, and nothing keeps two members from  *)
(* carrying the same name.                                                 *)
(***************************************************************************)
DupRows == {"turf", "bad_weapon", "bad_counter"}

\* The archive whose i-th member is named after member ids[i].
NamedArchiveOf(ids, suffixes, counts, rows) ==
    [i \in 1..Len(suffixes) |->
        [name |-> MemberName(ids[i], suffixes[i]),
         rows |-> ArchiveOf(suffixes, counts, rows)[i].rows]]

DupInit ==
    /\ call = "stream"
    /\ arg = [fn |-> "battle_records_from_zip", zip_file_path |-> ArchivePath]
    /\ ret = None
    /\ participant_keys = BuildOrder
    /\ \E n \in 0..MaxMembers :
        \E suffixes \in [1..n -> {CsvSuffix, TxtSuffix}], counts \in [1..n -> 0..MaxTotalRows] :
            /\ RowsBefore(counts, n + 1) <= MaxTotalRows
            /\ \A i \in 1..n : suffixes[i] # CsvSuffix => counts[i] = 0
            /\ \E rows \in [1..RowsBefore(counts, n + 1) -> DupRows] :
                \E ids \in [1..n -> 1..n] :
                    /\ \A i \in 1..n : ids[i] \in {1, i}
                    /\ archive = NamedArchiveOf(ids, suffixes, counts, rows)
    /\ gen = [g \in Consumers |-> NewGenerator]
    /\ logged = <<>>

DupNext ==
    \E g \in Consumers :
        \/ Request(g)
        \/ OpenZip(g)
        \/ OpenMember(g)
        \/ SkipMember(g)
        \/ EndOfArchive(g)
        \/ Decode(g)
        \/ RowYielded(g)
        \/ RowLogged(g)
        \/ RowRaised(g)
        \/ EndOfMember(g)
        \/ Close(g)

DupSpec == DupInit /\ [][DupNext]_vars

(***************************************************************************)
(* Properties of the field validators.                                     *)
(***************************************************************************)
\* An integer 0..50 written in decimal without leading zeros.
IsRankNumber(t) ==
    /\ t # <<>>
    /\ \A i \in 1..Len(t) : t[i] \in Digits
    /\ Len(t) > 1 => t[1] # "0"
    /\ Len(t) <= 2
    /\ DigitsValue(t, 0) <= 50

\* The rank grammar: empty; C, B, A or S with an optional + or -; or
\* "S+ " followed by a rank number.
InRankGrammar(s) ==
    \/ s = <<>>
    \/ Len(s) = 1 /\ s[1] \in {"C", "B", "A", "S"}
    \/ Len(s) = 2 /\ s[1] \in {"C", "B", "A", "S"} /\ s[2] \in {"+", "-"}
    \/ /\ Len(s) > 3
       /\ SubSeq(s, 1, 3) = <<"S", "+", " ">>
       /\ IsRankNumber(SubSeq(s, 4, Len(s)))

RankAccepted == {<<>>, <<"C", "-">>, <<"B", "+">>, <<"A">>, <<"S">>, <<"S", "+", " ", "0">>, <<"S", "+", " ", "5", "0">>}
RankRejected == {<<"S", "+", " ", "5", "1">>, <<"D">>, <<"s", "+">>, <<"S", "+", "5", "0">>}

\* C7: is_rank_string accepts exactly the texts of the rank grammar; it
\* accepts "", "C-", "B+", "A", "S", "S+ 0", "S+ 50" and rejects "S+ 51",
\* "D", "s+", "S+50".
C7_RankGrammar ==
    call = "is_rank_string" =>
        /\ ret = InRankGrammar(arg.key)
        /\ arg.key \in RankAccepted => ret = TRUE
        /\ arg.key \in RankRejected => ret = FALSE

C7_Witness ==
    /\ call = "is_rank_string"
    /\ arg.key = <<"S", "+", " ", "5", "0">>
    /\ ret = TRUE

IsLowerHexDigit(c) ==
    c \in {"0", "1", "2", "3", "4", "5", "6", "7", "8", "9",
           "a", "b", "c", "d", "e", "f"}

EightLowerHexDigits(s) ==
    Len(s) = 8 /\ \A i \in 1..Len(s) : IsLowerHexDigit(s[i])

\* C8: is_color_string accepts a text iff it is exactly 8 lowercase hex
\* digits (7 or 9 digits, an uppercase letter or a non-hex character are
\* rejected); create_team_characteristics turns an empty colour into an
\* absent colour and a non-empty colour that fails the validator into an Err.
C8_ColorValidator ==
    /\ call = "is_color_string" =>
        /\ ret = EightLowerHexDigits(arg.key)
        /\ Len(arg.key) \in {7, 9} => ret = FALSE
        /\ (\E i \in 1..Len(arg.key) : arg.key[i] \in {"F", "g", " "}) => ret = FALSE
    /\ call = "create_team_characteristics" =>
        LET raw_color == arg.data[arg.team \o "-color"]
        IN  /\ raw_color = <<>> /\ ~IsErr(ret) => ret.color = None
            /\ raw_color # <<>> /\ ~IsErr(ret) => ret.color = Some(raw_color)
            /\ raw_color # <<>> /\ ~EightLowerHexDigits(raw_color) => IsErr(ret)
            /\ (raw_color = <<>> \/ EightLowerHexDigits(raw_color)) =>
                    (~IsErr(ret) \/ ret.text # "Invalid color key: '{}'")

C8_Witness ==
    /\ call = "create_team_characteristics"
    /\ arg.data[arg.team \o "-color"] = <<"D", "0", "B", "F", "0", "8", "F", "F">>
    /\ arg.data[arg.team \o "-count"] = <<"3">>
    /\ arg.data[arg.team \o "-ink-percent"] = <<>>
    /\ IsErr(ret)
    /\ ret.text = "Invalid color key: '{}'"

\* C9: create_team_performance chooses the variant from which raw fields are
\* non-empty: a count alone gives the ranked variant; an inked-percent
\* without a count gives the turf-war variant (inked absent or an integer);
\* all three empty gives no performance; inked alone gives an Err; an
\* unparsable number in the fields of the chosen variant gives an Err.
C9_PerformanceVariants ==
    call = "create_team_performance" =>
        LET inked == arg.raw_inked
            percent == arg.raw_inked_percent
            count == arg.raw_count
        IN  /\ (count # <<>> /\ IntParses(count) /\ inked = <<>> /\ percent = <<>>)
                   => ret = RankedPerformance(IntValue(count))
            /\ (count = <<>> /\ FloatParses(percent) /\ inked = <<>>)
                   => ret = TurfWarPerformance(None, FloatValue(percent))
            /\ (count = <<>> /\ FloatParses(percent) /\ IntParses(inked))
                   => ret = TurfWarPerformance(Some(IntValue(inked)),
                                               FloatValue(percent))
            /\ (count = <<>> /\ percent = <<>> /\ inked = <<>>)
                   => ret = NoPerformance
            /\ (count = <<>> /\ percent = <<>> /\ inked # <<>>) => IsErr(ret)
            /\ (count # <<>> /\ ~IntParses(count)) => IsErr(ret)
            /\ (count = <<>> /\ percent # <<>> /\ ~FloatParses(percent))
                   => IsErr(ret)
            /\ (count = <<>> /\ percent # <<>> /\ inked # <<>> /\ ~IntParses(inked))
                   => IsErr(ret)

C9_Witness ==
    /\ call = "create_team_performance"
    /\ arg.raw_count = <<>>
    /\ arg.raw_inked = <<"1", "2", "0", "0">>
    /\ arg.raw_inked_percent = <<"5", "5", ".", "5">>
    /\ ret = TurfWarPerformance(Some(1200),
                                [kind |-> "num", neg |-> FALSE, mant |-> 555,
                                 scale |-> 1])

\* C10: create_team_performance returns an Err whenever the ranked count is
\* non-empty together with a non-empty inked-percent or a non-empty inked
\* amount.
C10_AtMostOneVariant ==
    (/\ call = "create_team_performance"
     /\ arg.raw_count # <<>>
     /\ (arg.raw_inked_percent # <<>> \/ arg.raw_inked # <<>>))
        => IsErr(ret)

(***************************************************************************)
(* Properties of the row decoder.                                          *)
(***************************************************************************)
Decoded == call = "battle_record_for_row"
IsRecord(v) == v.kind = "BattleRecord"

AllColumnsPresent(row) == Columns \subseteq DOMAIN row

\* The three performance fields of a team form one of the valid variants.
ValidPerformanceFields(row, team) ==
    LET count == row[team \o "-count"]
        inked == row[team \o "-inked"]
        percent == row[team \o "-ink-percent"]
    IN  \/ count # <<>> /\ IntParses(count) /\ inked = <<>> /\ percent = <<>>
        \/ /\ count = <<>>
           /\ percent # <<>> /\ FloatParses(percent)
           /\ inked = <<>> \/ IntParses(inked)
        \/ count = <<>> /\ inked = <<>> /\ percent = <<>>

\* The ability text is a JSON object of ability keys with number values.
ValidAbilityText(text) ==
    LET loaded == JsonLoads(text)
    IN  /\ loaded.kind = "object"
        /\ \A i \in 1..Len(loaded.items) :
            /\ loaded.items[i][1] \in ABILITY_KEYS
            /\ loaded.items[i][2].kind = "number"

ValidParticipantFields(row, id_) ==
    /\ row[id_ \o "-weapon"] \in KIT_KEYS
    /\ \A i \in 1..Len(CounterColumns) : IntParses(row[id_ \o CounterColumns[i]])
    /\ ValidAbilityText(row[id_ \o "-abilities"])

\* Every column is present and holds a value of its field's valid set.
RowValid(row) ==
    /\ AllColumnsPresent(row)
    /\ row["lobby"] \in LOBBY_KEYS
    /\ row["mode"] \in MODE_KEYS
    /\ row["stage"] \in STAGE_KEYS
    /\ row["win"] \in TEAM_KEYS
    /\ InRankGrammar(row["rank"])
    /\ row["period"] \in IsoTexts
    /\ IntParses(row["time"])
    /\ row["power"] = <<>> \/ FloatParses(row["power"])
    /\ \A team \in TEAM_KEYS :
        /\ row[team \o "-color"] = <<>> \/ EightLowerHexDigits(row[team \o "-color"])
        /\ ValidPerformanceFields(row, team)
    /\ \A id_ \in ParticipantIds : ValidParticipantFields(row, id_)
    /\ row["medal1-grade"] \in {"", "gold", "silver"}
    /\ row["medal2-grade"] \in {"", "gold", "silver"}

\* Some value of the row fails its field's validation: a bad enum key, a bad
\* pattern, an unparsable number, or an unparsable ability JSON.
HasFieldFailure(row) ==
    \/ row["lobby"] \notin LOBBY_KEYS
    \/ row["mode"] \notin MODE_KEYS
    \/ row["stage"] \notin STAGE_KEYS
    \/ row["win"] \notin TEAM_KEYS
    \/ ~InRankGrammar(row["rank"])
    \/ row["period"] \notin IsoTexts
    \/ ~IntParses(row["time"])
    \/ row["power"] # <<>> /\ ~FloatParses(row["power"])
    \/ \E team \in TEAM_KEYS :
        row[team \o "-color"] # <<>> /\ ~EightLowerHexDigits(row[team \o "-color"])
    \/ \E id_ \in ParticipantIds :
        \/ row[id_ \o "-weapon"] \notin KIT_KEYS
        \/ \E i \in 1..Len(CounterColumns) : ~IntParses(row[id_ \o CounterColumns[i]])
        \/ JsonLoads(row[id_ \o "-abilities"]) = JSONDecodeError
    \/ row["medal1-grade"] \notin {"", "gold", "silver"}
    \/ row["medal2-grade"] \notin {"", "gold", "silver"}

\* C2: for every row whose values fail field validation, battle_record_for_row
\* returns an Err (it neither raises nor returns a record), so that the
\* stream can log it and go on.
C2_FieldFailureIsErr ==
    (Decoded /\ AllColumnsPresent(arg.row) /\ HasFieldFailure(arg.row))
        => IsErr(ret)

\* No field of the record, of its participants, its team characteristics or
\* its medals holds a failure value.
WholeRecord(r) ==
    /\ \A k \in DOMAIN r.participants :
        /\ r.participants[k].kind = "BattleParticipant"
        /\ r.participants[k].abilities.kind = "dict"
    /\ \A t \in DOMAIN r.team_characteristics :
        /\ r.team_characteristics[t].kind = "TeamCharacteristics"
        /\ ~IsErr(r.team_characteristics[t].performance)
    /\ \A i \in 1..Len(r.medals) : r.medals[i].kind = "Medal"

\* C3: no field of a returned BattleRecord, of its participants, its team
\* characteristics or its medals holds a failure value.
C3_NoPartialRecord == (Decoded /\ IsRecord(ret)) => WholeRecord(ret)

IsTrueText(text) ==
    /\ Len(text) = 4
    /\ text[1] \in {"t", "T"} /\ text[2] \in {"r", "R"}
    /\ text[3] \in {"u", "U"} /\ text[4] \in {"e", "E"}

C6_MissingColumnIsErr ==
    (Decoded /\ ~AllColumnsPresent(arg.row)) => IsErr(ret)

(***************************************************************************)
(* Properties of the stream.                                               *)
(***************************************************************************)
\* The (member, row) positions of the rows of the archive's .csv members.
DataRows ==
    UNION {{<<i, j>> : j \in 1..Len(archive[i].rows)} :
            i \in {k \in 1..Len(archive) : EndsWith(archive[k].name, CsvSuffix)}}

MalformedRows ==
    {p \in DataRows : ~RowValid(StreamRows[archive[p[1]].rows[p[2]]])}

\* The sequence has been consumed to its end.
Consumed(g) == gen[g].pc \in {"done", "raised"}

\* C1: when a sequence over an archive with N data rows of which K are
\* malformed has been fully consumed, it has yielded exactly N-K records,
\* exactly K diagnostics have been logged, and no yielded record is partial.
C1_ExactCounts ==
    \A g \in DOMAIN gen :
        Consumed(g) =>
            /\ Len(gen[g].emitted) = Cardinality(DataRows) - Cardinality(MalformedRows)
            /\ Len(logged) = Cardinality(MalformedRows)
            /\ \A i \in 1..Len(gen[g].emitted) : WholeRecord(gen[g].emitted[i])

\* The medals of the row's slots 1 and 2 whose grade is gold or silver, in
\* slot order, each with the slot's name.
ExpectedMedals(row) ==
    LET slot(i) == [kind |-> "Medal",
                    name |-> row["medal" \o ToString(i) \o "-name"],
                    grade |-> row["medal" \o ToString(i) \o "-grade"]]
    IN  SelectSeq(<<slot(1), slot(2)>>, LAMBDA md : md.grade \in {"gold", "silver"})

\* The slots 1 and 2 whose grade is neither empty nor gold nor silver.
BadMedalSlots(row) ==
    {i \in 1..2 : row["medal" \o ToString(i) \o "-grade"] \notin {"", "gold", "silver"}}

\* The row with the grades of slots 1 and 2 emptied.
WithoutMedals(row) == [row EXCEPT !["medal1-grade"] = "", !["medal2-grade"] = ""]

\* C11: medals are decoded from slots 1 and 2 only.  A record's medals are
\* the gold and silver slots in slot order with their names unchanged (an
\* empty grade gives no medal whatever the name, so the list has 0, 1 or 2
\* medals); a row with any other non-empty grade yields no record, and when
\* the rest of the row is valid it yields the medal failure with one
\* sub-failure per such slot.
C11_MedalSlots ==
    (Decoded /\ AllColumnsPresent(arg.row)) =>
        /\ IsRecord(ret) =>
            /\ ret.medals = ExpectedMedals(arg.row)
            /\ Len(ret.medals) \in 0..2
        /\ BadMedalSlots(arg.row) # {} => ~IsRecord(ret)
        /\ (BadMedalSlots(arg.row) # {} /\ RowValid(WithoutMedals(arg.row))) =>
            /\ IsErr(ret)
            /\ ret.text = "Invalid medal data, skipping row {row_num}. Errors: {errs}"
            /\ Len(ret.args[2]) = Cardinality(BadMedalSlots(arg.row))
        /\ (BadMedalSlots(arg.row) = {} /\ RowValid(WithoutMedals(arg.row))) =>
            IsRecord(ret)

C11_Witness ==
    /\ Decoded
    /\ IsRecord(ret)
    /\ arg.row["medal1-grade"] = "gold"
    /\ arg.row["medal2-grade"] = "silver"
    /\ ret.medals = <<Medal("Big Bang", "gold"), Medal("", "silver")>>

\* The participants of the row whose weapon key is outside the catalog.
BadWeaponIds(row) == {id_ \in ParticipantIds : row[id_ \o "-weapon"] \notin KIT_KEYS}

\* The row with the weapon of participant id_ replaced by a catalog key.
WithCatalogWeapon(row, id_) == [row EXCEPT ![id_ \o "-weapon"] = "sshooter"]

\* The values interpolated into the failure's message.
Interpolated(err) == {err.args[i] : i \in 1..Len(err.args)}

\* C12: a row whose only fault is an invalid weapon key on one participant
\* yields one aggregate participant failure with one sub-failure, and that
\* sub-failure's message carries the participant's id or the offending key.
C12_NamesParticipant ==
    \A id_ \in ParticipantIds :
        (/\ Decoded
         /\ AllColumnsPresent(arg.row)
         /\ BadWeaponIds(arg.row) = {id_}
         /\ RowValid(WithCatalogWeapon(arg.row, id_)))
            => /\ IsErr(ret)
               /\ ret.text = "Invalid participant data, skipping row {row_num}. Errors: {errs}"
               /\ Len(ret.args[2]) = 1
               /\ Interpolated(ret.args[2][1]) \cap {id_, arg.row[id_ \o "-weapon"]} # {}

IsPrefix(a, b) == Len(a) <= Len(b) /\ SubSeq(b, 1, Len(a)) = a

\* What one full pass over the archive yields from row j (counted from 0)
\* of member i on: the records in order, and how the pass ends.
RECURSIVE PassFrom(_, _)
PassFrom(i, j) ==
    IF i > Len(archive) THEN [records |-> <<>>, end |-> "done"]
    ELSE IF ~EndsWith(archive[i].name, CsvSuffix) \/ j >= Len(archive[i].rows)
    THEN PassFrom(i + 1, 0)
    ELSE LET value == battle_record_for_row(j, StreamRows[archive[i].rows[j + 1]])
             rest == PassFrom(i, j + 1)
         IN  IF IsRaise(value) THEN [records |-> <<>>, end |-> "raised"]
             ELSE IF IsErr(value) THEN rest
             ELSE [records |-> <<value>> \o rest.records, end |-> rest.end]

\* C13: two sequences over the same archive, consumed one after the other
\* or interleaved, yield the same records in the same order: at any moment
\* one has yielded a prefix of the other, two sequences consumed to their
\* ends have yielded the same and ended the same way, and a sequence
\* consumed to its end has yielded what a single full pass yields, whatever
\* the other sequence did.
C13_Restartable ==
    \A g \in DOMAIN gen :
        /\ Consumed(g) =>
            LET pass == PassFrom(1, 0)
            IN  gen[g].emitted = pass.records /\ gen[g].pc = pass.end
        /\ \A h \in DOMAIN gen :
            /\ IsPrefix(gen[g].emitted, gen[h].emitted)
                    \/ IsPrefix(gen[h].emitted, gen[g].emitted)
            /\ (Consumed(g) /\ Consumed(h)) =>
                /\ gen[g].emitted = gen[h].emitted
                /\ gen[g].pc = gen[h].pc
                /\ gen[g].exc = gen[h].exc

\* One sequence was abandoned after its first record while the other was
\* in the middle of the archive; the other went on to the end.
C13_Witness ==
    /\ DOMAIN gen = {1, 2}
    /\ gen[2].pc = "closed"
    /\ Len(gen[2].emitted) = 1
    /\ gen[1].pc = "done"
    /\ Len(gen[1].emitted) = 2
    /\ Len(logged) = 0

(***************************************************************************)
(* Properties of the handles held by a sequence.                           *)
(***************************************************************************)
Exited(g) == gen[g].pc \in {"done", "raised", "closed"}

\* C14: on every exit path (exhaustion, a raised failure, the consumer
\* closing the sequence early) the archive handle and every member stream end
\* up closed; a member stream is open only while the archive handle is open,
\* and at most one member stream is open at a time.
C14_HandlesClosed ==
    \A g \in DOMAIN gen :
        /\ Exited(g) => ~gen[g].zip_open /\ gen[g].open = {}
        /\ gen[g].open # {} => gen[g].zip_open
        /\ Cardinality(gen[g].open) <= 1

\* The consumer closed the sequence after the first record of the second
\* member it read, with rows still unread.
C14_Witness ==
    \E g \in DOMAIN gen :
        /\ gen[g].pc = "closed"
        /\ Len(gen[g].emitted) = 1
        /\ gen[g].member_idx = 2
        /\ Len(archive) = 2
        /\ archive[1].name = MemberName(1, CsvSuffix)
        /\ ~gen[g].zip_open
        /\ gen[g].open = {}

(***************************************************************************)
(* Properties of failures of the container.                                *)
(***************************************************************************)
ContainerErrors == {"FileNotFoundError", "BadZipFile", "UnicodeDecodeError"}

\* The next statement of the sequence meets a failure of the container: the
\* path cannot be opened as an archive, or the next stretch of the open
\* member cannot be read.
ContainerFailureDue(g) ==
    \/ gen[g].pc = "open_zip" /\ arg.zip_file_path # ArchivePath
    \/ /\ gen[g].pc = "read_row"
       /\ gen[g].row_num < Len(archive[gen[g].file[1]].rows)
       /\ NextLabel(g) = Undecodable

\* The sequence ended by raising a failure of the container to its consumer.
ContainerFailed(g) ==
    /\ gen[g].pc = "raised"
    /\ gen[g].exc # None
    /\ gen[g].exc[1] \in ContainerErrors

\* C15: a failure of the container is fatal.  The step that meets it raises
\* it to the consumer (the sequence does not go on, and does not end
\* normally), emits nothing and logs nothing in its place; after it the
\* sequence never changes again, so no record is emitted and the sequence
\* never ends normally; the records emitted before it remain emitted.
C15_ContainerFailureFatal ==
    [][\A g \in DOMAIN gen :
        /\ (ContainerFailureDue(g) /\ gen'[g] # gen[g]) =>
            /\ gen'[g].pc = "raised"
            /\ gen'[g].exc # None
            /\ gen'[g].exc[1] \in ContainerErrors
            /\ gen'[g].emitted = gen[g].emitted
            /\ logged' = logged
        /\ ContainerFailed(g) => gen'[g] = gen[g] /\ logged' = logged]_vars

\* A member failed to decode after one record of it had been emitted.
C15_Witness ==
    \E g \in DOMAIN gen :
        /\ ContainerFailed(g)
        /\ gen[g].exc = Some("UnicodeDecodeError")
        /\ Len(gen[g].emitted) = 1
        /\ Len(logged) = 0

(***************************************************************************)
(* Properties of the selection of members.                                 *)
(***************************************************************************)
\* The members whose name ends in ".csv".
CsvMembers == {k \in 1..Len(archive) : EndsWith(archive[k].name, CsvSuffix)}

\* The members of a set, in ascending order.
RECURSIVE Ascending(_)
Ascending(S) ==
    IF S = {} THEN <<>>
    ELSE LET least == CHOOSE k \in S : \A j \in S : k <= j
         IN  <<least>> \o Ascending(S \ {least})

\* C16: exactly the members whose name ends in ".csv" are opened.  No other
\* member is ever opened, no member is opened twice, and when the members are
\* exhausted the sequence has ended normally having opened every such member
\* once, in archive order, with every one of their rows (and nothing else)
\* turned into a record or a diagnostic.
C16_ExactlyCsvMembers ==
    \A g \in DOMAIN gen :
        /\ \A i \in 1..Len(gen[g].opened) : gen[g].opened[i] \in CsvMembers
        /\ \A i, j \in 1..Len(gen[g].opened) : gen[g].opened[i] = gen[g].opened[j] => i = j
        /\ gen[g].pc = "done" =>
            /\ gen[g].member_idx > Len(archive)
            /\ gen[g].opened = Ascending(CsvMembers)
            /\ Len(gen[g].emitted) + Len(logged) = Cardinality(DataRows)
        /\ (gen[g].pc = "next_member" /\ gen[g].member_idx > Len(archive)) =>
            gen[g].opened = Ascending(CsvMembers)

(***************************************************************************)
(* Properties of the aggregation of failures within one row.               *)
(***************************************************************************)
\* The value of an ability parses as a number: a JSON number, or a JSON
\* string holding the text of one.
ParsesAsNumber(value) ==
    \/ value.kind = "number"
    \/ value.kind = "string" /\ FloatParses(value.s)

\* Some field of the participant fails its validation.
ParticipantFieldFails(row, id_) ==
    \/ row[id_ \o "-weapon"] \notin KIT_KEYS
    \/ \E i \in 1..Len(CounterColumns) : ~IntParses(row[id_ \o CounterColumns[i]])
    \/ LET loaded == JsonLoads(row[id_ \o "-abilities"])
       IN  \/ loaded.kind # "object"
           \/ \E i \in 1..Len(loaded.items) :
                \/ loaded.items[i][1] \notin ABILITY_KEYS
                \/ ~ParsesAsNumber(loaded.items[i][2])

FailedParticipants(row) == {id_ \in ParticipantIds : ParticipantFieldFails(row, id_)}

ParticipantFailureText == "Invalid participant data, skipping row {row_num}. Errors: {errs}"

IsParticipantFailure(v) == IsErr(v) /\ v.text = ParticipantFailureText

\* C17: participant failures are aggregated.  A row with j > 0 participants
\* that fail yields the participant failure of the row, carrying the row
\* index and exactly j sub-failures, wherever the failing participants stand
\* among the 8; a row with no failing participant does not yield it.
C17_ParticipantsAggregated ==
    (Decoded /\ AllColumnsPresent(arg.row)) =>
        LET failed == FailedParticipants(arg.row)
        IN  /\ failed # {} =>
                /\ IsParticipantFailure(ret)
                /\ ret.args[1] = arg.row_num
                /\ Len(ret.args[2]) = Cardinality(failed)
            /\ failed = {} => ~IsParticipantFailure(ret)

TopLevelFields == {"lobby", "rank", "mode", "stage", "win"}

\* The top-level key fields of the row whose value is invalid.
InvalidTopLevelFields(row) ==
    {f \in TopLevelFields :
        CASE f = "lobby" -> row[f] \notin LOBBY_KEYS
          [] f = "rank" -> ~InRankGrammar(row[f])
          [] f = "mode" -> row[f] \notin MODE_KEYS
          [] f = "stage" -> row[f] \notin STAGE_KEYS
          [] f = "win" -> row[f] \notin TEAM_KEYS}

TopLevelFailureText ==
    [lobby |-> "Invalid lobby key: {lobby_key} on row {row_num}",
     rank |-> "Invalid rank string: {rank_str} on row {row_num}",
     mode |-> "Invalid mode key: {mode_key} on row {row_num}",
     stage |-> "Invalid stage key: {stage_key} on row {row_num}",
     win |-> "Invalid win key: {winner_key} on row {row_num}"]

AggregateFailureTexts ==
    {ParticipantFailureText,
     "Invalid team characteristics, skipping row {row_num}. Errors: {errs}",
     "Invalid medal data, skipping row {row_num}. Errors: {errs}"}

\* The failure itself and, for an aggregate failure, its sub-failures.
FailuresIn(err) ==
    {err} \cup (IF err.text \in AggregateFailureTexts
                THEN {err.args[2][i] : i \in 1..Len(err.args[2])}
                ELSE {})

\* The failure reports the field: it is, or it carries, the field's failure
\* with the field's value.
NamesField(err, row, f) ==
    \E sub \in FailuresIn(err) :
        /\ sub.text = TopLevelFailureText[f]
        /\ sub.args[1] = row[f]

\* C18: the failure returned for a row names every one of the five top-level
\* key fields whose value is invalid, whatever else failed in the row.
C18_EveryInvalidKeyNamed ==
    (Decoded /\ AllColumnsPresent(arg.row) /\ InvalidTopLevelFields(arg.row) # {}) =>
        /\ IsErr(ret)
        /\ \A f \in InvalidTopLevelFields(arg.row) : NamesField(ret, arg.row, f)

(***************************************************************************)
(* Properties of parse_abilities.                                          *)
(***************************************************************************)
Parsed == call = "parse_abilities"

JsonKeys(loaded) == {loaded.items[i][1] : i \in 1..Len(loaded.items)}

\* The number a JSON value parses to.
NumberOf(value) == FloatValue(IF value.kind = "number" THEN value.lit ELSE value.s)

\* C19: parse_abilities rejects the whole text on any malformed entry.  Text
\* that is not JSON gives a failure; an object with keys that are not ability
\* identifiers gives a failure listing exactly those keys; an object with
\* valid keys and a value that does not parse as a number gives a failure;
\* any other object gives the map of every key to its number, and no map
\* ever lacks a key of the text.
C19_WholeBlobOrFailure ==
    Parsed =>
        LET loaded == JsonLoads(arg.abilities_json)
        IN  /\ loaded = JSONDecodeError => IsErr(ret)
            /\ loaded.kind = "object" =>
                LET bad == {k \in JsonKeys(loaded) : k \notin ABILITY_KEYS}
                    unparsed == {i \in 1..Len(loaded.items) : ~ParsesAsNumber(loaded.items[i][2])}
                IN  /\ bad # {} => IsErr(ret) /\ ret.args = <<bad>>
                    /\ (bad = {} /\ unparsed # {}) => IsErr(ret)
                    /\ (bad = {} /\ unparsed = {}) =>
                        /\ ret.kind = "dict"
                        /\ DOMAIN ret.items = JsonKeys(loaded)
                        /\ \A i \in 1..Len(loaded.items) :
                            ret.items[loaded.items[i][1]] = NumberOf(loaded.items[i][2])

\* C20: the sub-decoders are total.  For every text, valid JSON that is not
\* an object and object values that are null or lists included,
\* parse_abilities either succeeds with a map or returns a failure; it never
\* raises an exception.
C20_NoUncaughtException ==
    Parsed => (ret.kind = "dict" \/ IsErr(ret))

(***************************************************************************)
(* Properties of the diagnostics of the stream.                            *)
(***************************************************************************)
\* The (member, row index) positions, in reading order from row j of member
\* i on, of the rows whose decoding gives a failure.
RECURSIVE FailedPositionsFrom(_, _)
FailedPositionsFrom(i, j) ==
    IF i > Len(archive) THEN <<>>
    ELSE IF ~EndsWith(archive[i].name, CsvSuffix) \/ j >= Len(archive[i].rows)
    THEN FailedPositionsFrom(i + 1, 0)
    ELSE IF IsErr(battle_record_for_row(j, StreamRows[archive[i].rows[j + 1]]))
    THEN <<<<i, j>>>> \o FailedPositionsFrom(i, j + 1)
    ELSE FailedPositionsFrom(i, j + 1)

\* C21: every diagnostic logged for a failed row identifies the row index and
\* the member the row came from: when a sequence has ended normally there is
\* one diagnostic per failed row, each carries its row's index, and the
\* diagnostics of two failed rows with the same index in two different
\* members differ.
C21_DiagnosticNamesMember ==
    \A g \in DOMAIN gen :
        gen[g].pc = "done" =>
            LET failed == FailedPositionsFrom(1, 0)
            IN  /\ Len(logged) = Len(failed)
                /\ \A a \in 1..Len(failed) : logged[a].args[1] = failed[a][2]
                /\ \A a, b \in 1..Len(failed) :
                    (failed[a][1] # failed[b][1] /\ failed[a][2] = failed[b][2])
                        => logged[a] # logged[b]

(***************************************************************************)
(* Properties of the order in which rows are consumed.                     *)
(***************************************************************************)
\* The number of rows of the .csv members before member i.
RECURSIVE DataRowsBefore(_)
DataRowsBefore(i) ==
    IF i = 1 THEN 0
    ELSE DataRowsBefore(i - 1)
            + (IF EndsWith(archive[i - 1].name, CsvSuffix)
               THEN Len(archive[i - 1].rows) ELSE 0)

\* The sequence waits for its consumer: it was just created, it has yielded
\* a record, or its consumer has closed it.
Waiting(g) == gen[g].pc \in {"created", "yielded", "closed"}

NonNegative(f) ==
    \/ f.kind = "num" /\ (~f.neg \/ f.mant = 0)
    \/ f.kind = "inf" /\ ~f.neg

\* C23: in every record, every participant's abilities are a map whose keys
\* are ability identifiers and whose weights are non-negative numbers; a row
\* with a negative weight yields no record.
C23_AbilityWeights ==
    (Decoded /\ IsRecord(ret)) =>
        \A k \in DOMAIN ret.participants :
            LET abilities == ret.participants[k].abilities
            IN  /\ abilities.kind = "dict"
                /\ DOMAIN abilities.items \subseteq ABILITY_KEYS
                /\ \A key \in DOMAIN abilities.items : NonNegative(abilities.items[key])

(***************************************************************************)
(* Properties of the order of the boundaries of a row.                     *)
(***************************************************************************)
TeamFailureText == "Invalid team characteristics, skipping row {row_num}. Errors: {errs}"
MedalFailureText == "Invalid medal data, skipping row {row_num}. Errors: {errs}"
SeasonFailureText == "Missing season field on row {row_num}. Valid Fields: {row.keys()}"

TopLevelOrder == <<"lobby", "rank", "mode", "stage", "win">>

\* The first of the top-level key fields, in the order of the checks, whose
\* value is invalid.
FirstInvalidTopLevel(row) ==
    TopLevelOrder[CHOOSE i \in 1..Len(TopLevelOrder) :
        /\ TopLevelOrder[i] \in InvalidTopLevelFields(row)
        /\ \A j \in 1..(i - 1) : TopLevelOrder[j] \notin InvalidTopLevelFields(row)]

ParticipantColumnNames ==
    {id_ \o "-weapon" : id_ \in ParticipantIds}
        \cup {id_ \o CounterColumns[i] : id_ \in ParticipantIds, i \in 1..Len(CounterColumns)}
        \cup {id_ \o "-abilities" : id_ \in ParticipantIds}

TeamColumnNames ==
    {team \o suffix : team \in TEAM_KEYS,
                      suffix \in {"-color", "-theme", "-count", "-inked", "-ink-percent"}}

\* Decoding the participants of the row raises nothing.
ParticipantsDecodable(row) ==
    /\ TopLevelFields \cup ParticipantColumnNames \subseteq DOMAIN row
    /\ \A id_ \in ParticipantIds :
        \/ row[id_ \o "-weapon"] \notin KIT_KEYS
        \/ /\ \A i \in 1..Len(CounterColumns) : IntParses(row[id_ \o CounterColumns[i]])
           /\ ~IsRaise(parse_abilities(row[id_ \o "-abilities"]))

TeamFailed(row) ==
    \E team \in TEAM_KEYS : IsErr(create_team_characteristics(row, team))

RECURSIVE OrderedPassFrom(_, _)
OrderedPassFrom(i, j) ==
    IF i > Len(archive) THEN [records |-> <<>>, diagnostics |-> <<>>, end |-> "done"]
    ELSE IF ~EndsWith(archive[i].name, CsvSuffix) \/ j >= Len(archive[i].rows)
    THEN OrderedPassFrom(i + 1, 0)
    ELSE LET value == battle_record_for_row(j, StreamRows[archive[i].rows[j + 1]])
             rest == OrderedPassFrom(i, j + 1)
         IN  IF IsRaise(value)
             THEN [records |-> <<>>, diagnostics |-> <<>>, end |-> "raised"]
             ELSE IF IsErr(value)
             THEN [rest EXCEPT !.diagnostics = <<value>> \o @]
             ELSE [rest EXCEPT !.records = <<value>> \o @]

\* C25: the records emitted are the successfully decoded rows in order,
\* members in archive order and rows in file order, each once, every row
\* decoded under its zero-based position in its own member: a sequence
\* consumed to its end has emitted exactly the records, and logged exactly
\* the diagnostics, of such a pass.
C25_OrderPreserved ==
    \A g \in DOMAIN gen :
        Consumed(g) =>
            LET pass == OrderedPassFrom(1, 0)
            IN  /\ gen[g].emitted = pass.records
                /\ logged = pass.diagnostics
                /\ gen[g].pc = pass.end

====
